---- MODULE Spec2Model ----
(***************************************************************************)
(* Model of tools/build_matrix.py: the stop_times stream that derives the  *)
(* per-window segments, the per-window medians and dominant routes, the    *)
(* stop graph with transfer edges, Dijkstra with first-route attribution   *)
(* and the neighborhood matrix.                                            *)
(*                                                                         *)
(* Identifiers (trip, stop, route, service ids) are modelled as positive   *)
(* integers, ordered as Python orders the strings; Python's None is the    *)
(* integer None where an integer or an identifier is expected.             *)
(***************************************************************************)
EXTENDS Integers, Sequences, FiniteSets, TLC

VARIABLES
    pc,                          \* position of main(): "load", "stream", "aggregated", "build", "solve", "scores", "done"
    stops,                       \* keys of the stops dict of load_stops
    parent_to_children,          \* parent id -> list of child stop ids
    trip_routes,                 \* trip id -> route id (absent key: no route)
    trip_services,               \* trips.txt: trip id -> service id (absent key: no row)
    calendar,                    \* calendar.txt: [present, rows: service id -> day flags]
    allowed_weekday_trips,       \* optional set of trip ids
    allowed_weekend_trips,       \* optional set of trip ids
    trip_state,                  \* trip id -> [seq, stop, dep]
    seg_lists_by_window,         \* window id -> (edge -> list of seconds)
    seg_route_counts_by_window,  \* window id -> (edge -> Counter, in insertion order)
    active_stops,
    weights_by_window,           \* window id -> (edge -> median seconds)
    routes_by_window,            \* window id -> (edge -> dominant route)
    lastRow,                     \* history: trip id -> the previous row of that trip in the stream
    curRow,                      \* history: the row handled by the last step
    out_of_order,                \* history: that row found a stored sequence not below its own
    tripRows,                    \* history: trip id -> the rows of that trip read so far
    nrows,                       \* rows read so far
    transfer_seconds,            \* int(round(args.transfer_minutes * 60))
    segment_weights,             \* the window's edge -> median seconds
    segment_routes,              \* the window's edge -> dominant route
    graph,                       \* stop id -> list of edges [v, w, rid]
    rep_stops,                   \* the representative stop of each neighborhood, by ordinal
    origin,                      \* ordinal i of the matrix row being computed
    dist,                        \* dijkstra_first_route: stop id -> seconds
    first_route,                 \* dijkstra_first_route: stop id -> route of the first edge
    heap,                        \* dijkstra_first_route: the (d, u) entries of the heap
    minutes_matrix,
    first_route_matrix,
    centrality_scores,           \* harmonic score of each neighborhood, by ordinal
    median_minutes,              \* median of the positive minutes of each row
    penalized_scores,            \* harmonic score on the transfer-penalized graph
    neighborhoods,               \* compute_hub_corridors: [id, centroid, borough] by ordinal
    hub_indices,                 \* compute_hub_corridors: the ordinal of each hub, in hubs_cfg order
    corridors,                   \* compute_hub_corridors: per hub [top_underrated, top_speed]
    top_n,                       \* compute_hub_corridors: the parameter top_n
    region_cells,                \* build_derived: the cells of each region, in dict order
    derived_regions,             \* build_derived: the list derived_regions
    derived_features,            \* build_derived: the properties of derived_regions.geojson
    named_regions,               \* history: derived_regions before the de-duplication
    tracts_list,                 \* build_derived: the ids of graph["neighborhoods"]
    derived_minutes,             \* build_derived: minutes of matrix_<profile>_derived.json
    derived_first_route,         \* build_derived: first_route of the derived matrix
    time_text,                   \* parse_gtfs_time_to_seconds: the argument value
    time_seconds,                \* parse_gtfs_time_to_seconds: the value returned
    namelist,                    \* main: zf.namelist() of the GTFS zip
    features,                    \* main: the features of the neighborhoods GeoJSON
    neighborhood_list,           \* main: the list neighborhoods, [id, stop_id, feature]
    written,                     \* main: the files written to out_dir by this run
    exit_code,                   \* main: the value returned, None while running
    derived_tracts               \* build_derived: the list tracts, [id, feature]

streamVars == <<trip_state, seg_lists_by_window, seg_route_counts_by_window, active_stops>>
feedVars == <<stops, parent_to_children, trip_routes, trip_services, calendar,
              allowed_weekday_trips, allowed_weekend_trips>>
histVars == <<lastRow, curRow, out_of_order, tripRows, nrows>>
aggVars == <<weights_by_window, routes_by_window>>

windowVars == <<transfer_seconds, segment_weights, segment_routes, graph, rep_stops>>
solveVars == <<origin, dist, first_route, heap>>
matrixVars == <<minutes_matrix, first_route_matrix>>
scoreVars == <<centrality_scores, median_minutes, penalized_scores>>
graphVars == <<windowVars, solveVars, matrixVars, scoreVars>>

corridorVars == <<neighborhoods, hub_indices, corridors, top_n>>
derivedVars == <<region_cells, derived_regions, derived_features, named_regions, tracts_list,
                 derived_minutes, derived_first_route>>
parseVars == <<time_text, time_seconds>>
mainVars == <<namelist, features, neighborhood_list, written, exit_code, derived_tracts>>
setupVars == <<parseVars, mainVars>>
toolVars == <<corridorVars, derivedVars, setupVars>>

vars == <<pc, feedVars, streamVars, histVars, aggVars, graphVars, toolVars>>

----------------------------------------------------------------------------
(* Bounds of the model *)

MaxRows == 4          \* rows of stop_times.txt read in the chain specification
MaxTripRows == 2      \* rows per trip in the interleaving specification
MaxServiceRows == 2   \* rows of stop_times.txt read in the service specification
MaxSegments == 3      \* edges of segment_weights in the graph specification

----------------------------------------------------------------------------
(* Python values *)

None == -1

NoneSet == [none |-> TRUE, ids |-> {}]
SomeSet(s) == [none |-> FALSE, ids |-> s]

EmptyDict == [k \in {} |-> 0]

DictPop(d, k) == [x \in (DOMAIN d) \ {k} |-> d[x]]

DictSet(d, k, v) == [x \in (DOMAIN d) \cup {k} |-> IF x = k THEN v ELSE d[x]]

----------------------------------------------------------------------------
(* The three fixed windows *)

windows ==
    << [wid |-> "weekday_am", start |-> 7 * 3600, end |-> 10 * 3600],
       [wid |-> "weekday_pm", start |-> 16 * 3600, end |-> 19 * 3600],
       [wid |-> "weekend", start |-> 10 * 3600, end |-> 22 * 3600] >>

WindowIds == {windows[i].wid : i \in DOMAIN windows}

WindowOf(wid) == CHOOSE w \in {windows[i] : i \in DOMAIN windows} : w.wid = wid

window_id_for_departure(dep_sec) ==
    {windows[i].wid : i \in {k \in DOMAIN windows :
        dep_sec # None /\ windows[k].start <= dep_sec /\ dep_sec < windows[k].end}}

IsWeekdayWindow(wid) == wid \in {"weekday_am", "weekday_pm"}

----------------------------------------------------------------------------
(* Counter: (route, count) pairs in insertion order *)

CounterIndex(c, rid) == {i \in DOMAIN c : c[i].rid = rid}

CounterInc(c, rid) ==
    IF CounterIndex(c, rid) = {}
    THEN Append(c, [rid |-> rid, n |-> 1])
    ELSE [i \in DOMAIN c |-> IF c[i].rid = rid THEN [c[i] EXCEPT !.n = @ + 1] ELSE c[i]]

\* most_common(1)[0]: the first entry, in insertion order, with the largest count
most_common_1(c) ==
    LET best == CHOOSE i \in DOMAIN c :
                    /\ \A j \in DOMAIN c : c[j].n <= c[i].n
                    /\ \A j \in DOMAIN c : (j < i) => c[j].n < c[i].n
    IN c[best].rid

----------------------------------------------------------------------------
(* median_int *)

RECURSIVE InsertSorted(_, _)
InsertSorted(s, x) ==
    IF s = <<>> THEN <<x>>
    ELSE IF x <= Head(s) THEN <<x>> \o s
    ELSE <<Head(s)>> \o InsertSorted(Tail(s), x)

RECURSIVE sorted(_)
sorted(s) == IF s = <<>> THEN <<>> ELSE InsertSorted(sorted(Tail(s)), Head(s))

\* int(x / 2) for an integer x: truncation toward zero
IntHalf(x) == IF x >= 0 THEN x \div 2 ELSE -((-x) \div 2)

\* the even case without the division by two
median_int_sum(values) ==
    LET data == sorted(values)
        n == Len(data)
    IN IF n = 1 THEN values[1]
       ELSE IF n % 2 = 1 THEN data[(n \div 2) + 1]
       ELSE data[n \div 2] + data[(n \div 2) + 1]

median_int(values) ==
    LET data == sorted(values)
        n == Len(data)
    IN IF n = 1 THEN values[1]
       ELSE IF n % 2 = 1 THEN data[(n \div 2) + 1]
       ELSE IntHalf(data[n \div 2] + data[(n \div 2) + 1])

----------------------------------------------------------------------------
(* One iteration of the stop_times loop, on the record S of the stream      *)
(* state; row holds the parsed fields of the CSV row.                       *)

StreamState ==
    [trip_state |-> trip_state,
     seg_lists_by_window |-> seg_lists_by_window,
     seg_route_counts_by_window |-> seg_route_counts_by_window,
     active_stops |-> active_stops]

EmptyStream ==
    [trip_state |-> EmptyDict,
     seg_lists_by_window |-> [w \in WindowIds |-> EmptyDict],
     seg_route_counts_by_window |-> [w \in WindowIds |-> EmptyDict],
     active_stops |-> {}]

is_weekday_trip(trip_id) ==
    allowed_weekday_trips.none \/ trip_id \in allowed_weekday_trips.ids

is_weekend_trip(trip_id) ==
    allowed_weekend_trips.none \/ trip_id \in allowed_weekend_trips.ids

\* one chain state shared by every trip
chain_key_shared(trip_id) == 0

\* trip_state is keyed by trip_id
chain_key(trip_id) == trip_id

\* the value of trip_state.get(trip_id) when nothing is stored
NoState == [seq |-> None, stop |-> None, dep |-> None]

state_get(T, key) == IF key \in DOMAIN T THEN T[key] ELSE NoState

\* seq <= prev_seq for a row that reaches the test
seq_not_above(prev, row) ==
    prev # NoState /\ row.stop_id # None /\ row.seq # None /\ row.seq <= prev.seq

trip_route(trip_id) ==
    IF trip_id \in DOMAIN trip_routes THEN trip_routes[trip_id] ELSE None

\* the window filter without the weekend test
sample_windows_weekday_only(trip_id, prev_dep) ==
    {wid \in window_id_for_departure(prev_dep) :
        ~(IsWeekdayWindow(wid) /\ ~is_weekday_trip(trip_id))}

\* the windows that receive the sample of a trip departing at prev_dep
sample_windows(trip_id, prev_dep) ==
    {wid \in window_id_for_departure(prev_dep) :
        /\ ~(IsWeekdayWindow(wid) /\ ~is_weekday_trip(trip_id))
        /\ ~(wid = "weekend" /\ ~is_weekend_trip(trip_id))}

\* the chain test without the stop_sequence comparison
chain_accepts_any_seq(prev, row) ==
    /\ prev.dep # None
    /\ row.arr # None
    /\ 0 < row.arr - prev.dep
    /\ row.arr - prev.dep < 3600
    /\ prev.stop \in stops
    /\ row.stop_id \in stops

\* the edge is accepted from the stored chain state prev and the current row
chain_accepts(prev, row) ==
    /\ row.seq = prev.seq + 1
    /\ prev.dep # None
    /\ row.arr # None
    /\ 0 < row.arr - prev.dep
    /\ row.arr - prev.dep < 3600
    /\ prev.stop \in stops
    /\ row.stop_id \in stops

add_sample(S, wids, edge, seg, rid) ==
    [S EXCEPT
        !.seg_lists_by_window = [w \in WindowIds |->
            IF w \in wids
            THEN DictSet(@[w], edge,
                         Append(IF edge \in DOMAIN @[w] THEN @[w][edge] ELSE <<>>, seg))
            ELSE @[w]],
        !.seg_route_counts_by_window = [w \in WindowIds |->
            IF w \in wids
            THEN DictSet(@[w], edge,
                         CounterInc(IF edge \in DOMAIN @[w] THEN @[w][edge] ELSE <<>>, rid))
            ELSE @[w]]]

\* the end of the loop body with the stored state dropped after a row out of order
store_row_drops_out_of_order(S, key, row) ==
    IF row.dep = None \/ (key \in DOMAIN S.trip_state /\ row.seq <= S.trip_state[key].seq)
    THEN [S EXCEPT !.trip_state = DictPop(@, key)]
    ELSE [S EXCEPT !.trip_state =
            DictSet(@, key, [seq |-> row.seq, stop |-> row.stop_id, dep |-> row.dep])]

\* the end of the loop body with the stored state kept when the departure is unknown
store_row_keeps_without_dep(S, key, row) ==
    IF row.dep = None THEN S
    ELSE [S EXCEPT !.trip_state =
            DictSet(@, key, [seq |-> row.seq, stop |-> row.stop_id, dep |-> row.dep])]

\* the end of the loop body: the state is popped without a departure time, and is
\* the row otherwise
store_row(S, key, row) ==
    IF row.dep = None THEN [S EXCEPT !.trip_state = DictPop(@, key)]
    ELSE [S EXCEPT !.trip_state =
            DictSet(@, key, [seq |-> row.seq, stop |-> row.stop_id, dep |-> row.dep])]

\* The branch `elif seq <= prev_seq: prev = None` clears the local variable prev only:
\* trip_state is untouched by it, and the row is stored below like any other row.
process_row(S, row) ==
    LET trip_id == row.trip_id
        stop_id == row.stop_id
        key == chain_key(trip_id)
        popped(T) == [T EXCEPT !.trip_state = DictPop(@, key)]
    IN
    IF trip_id = None THEN S
    ELSE IF stop_id = None THEN popped(S)
    ELSE
      LET S1 == [S EXCEPT !.active_stops =
                    IF stop_id \in stops THEN @ \cup {stop_id} ELSE @]
      IN
      IF row.seq = None THEN popped(S1)
      ELSE
        LET S2 ==
              IF key \in DOMAIN S1.trip_state
                   /\ chain_accepts(S1.trip_state[key], row)
              THEN LET prev == S1.trip_state[key]
                   IN add_sample(S1, sample_windows(trip_id, prev.dep),
                                 <<prev.stop, stop_id>>, row.arr - prev.dep,
                                 trip_route(trip_id))
              ELSE S1
        IN store_row(S2, key, row)

----------------------------------------------------------------------------
(* The aggregation after the stream: medians and dominant routes *)

segment_weights_of(seg_lists) ==
    [w \in WindowIds |->
        [e \in DOMAIN seg_lists[w] |-> median_int(seg_lists[w][e])]]

segment_routes_of(counts) ==
    [w \in WindowIds |->
        [e \in DOMAIN counts[w] |->
            IF counts[w][e] = <<>> THEN None ELSE most_common_1(counts[w][e])]]

----------------------------------------------------------------------------
(* build_graph *)

\* the elements of a finite set of integers, ascending
RECURSIVE SeqOfSet(_)
SeqOfSet(S) ==
    IF S = {} THEN <<>>
    ELSE LET m == CHOOSE x \in S : \A y \in S : x <= y
         IN <<m>> \o SeqOfSet(S \ {m})

Edge(v, w, rid) == [v |-> v, w |-> w, rid |-> rid]

DictGet(d, k) == IF k \in DOMAIN d THEN d[k] ELSE None

\* the transit edges leaving u: one per key (u, v) of segment_weights
transit_edges(nodes, weights, routes, u) ==
    LET vs == SeqOfSet({v \in nodes : <<u, v>> \in DOMAIN weights /\ weights[<<u, v>>] > 0})
    IN [k \in DOMAIN vs |-> Edge(vs[k], weights[<<u, vs[k]>>], DictGet(routes, <<u, vs[k]>>))]

\* the children at the positions j after i only
later_children(children, i) == SubSeq(children, i + 1, Len(children))

\* the children at the positions j other than i, in list order
other_children(children, i) ==
    SubSeq(children, 1, i - 1) \o SubSeq(children, i + 1, Len(children))

\* the edges that one children list gives to u, from the positions i.. of u in it
RECURSIVE sibling_edges(_, _, _, _)
sibling_edges(children, u, seconds, i) ==
    IF Len(children) < 2 \/ i > Len(children) THEN <<>>
    ELSE LET to == other_children(children, i)
         IN (IF children[i] = u
             THEN [k \in DOMAIN to |-> Edge(to[k], seconds, None)]
             ELSE <<>>) \o sibling_edges(children, u, seconds, i + 1)

\* the loop over parent_to_children.items(), on the parent ids still to visit
RECURSIVE complex_edges(_, _, _, _)
complex_edges(p2c, parents, u, seconds) ==
    IF parents = <<>> THEN <<>>
    ELSE sibling_edges(p2c[Head(parents)], u, seconds, 1)
            \o complex_edges(p2c, Tail(parents), u, seconds)

\* the transfer edges leaving u
transfer_edges(p2c, u, seconds) ==
    IF seconds > 0 THEN complex_edges(p2c, SeqOfSet(DOMAIN p2c), u, seconds) ELSE <<>>

build_graph(nodes, p2c, weights, routes, seconds) ==
    [u \in nodes |-> transit_edges(nodes, weights, routes, u) \o transfer_edges(p2c, u, seconds)]

----------------------------------------------------------------------------
(* dijkstra and dijkstra_first_route *)

\* heapq.heappop: the least (d, u), compared as tuples
heap_min(h) ==
    CHOOSE e \in h : \A f \in h : e[1] < f[1] \/ (e[1] = f[1] /\ e[2] <= f[2])

\* a node is relaxed only when it has no distance yet
relax_improves_first_only(old, nd) == old = None

\* a node is relaxed only when it has a distance already
relax_improves_known_only(old, nd) == old # None /\ nd < old

\* old is None or nd < old
relax_improves(old, nd) == old = None \/ nd < old

\* the route recorded on a relaxation is always the route of the relaxed edge
relaxed_route_last_edge(fr, start, u, rid) == rid

\* the route recorded when the edge (u, v) with route rid is relaxed
relaxed_route(fr, start, u, rid) == IF u = start THEN rid ELSE DictGet(fr, u)

\* the for loop over graph[u], from position k, on D = [dist, first_route, heap]
RECURSIVE relax_edges(_, _, _, _, _, _)
relax_edges(D, start, u, d, edges, k) ==
    IF k > Len(edges) THEN D
    ELSE LET e == edges[k]
             nd == d + e.w
             old == DictGet(D.dist, e.v)
             D1 == IF relax_improves(old, nd)
                   THEN [dist |-> DictSet(D.dist, e.v, nd),
                         first_route |-> DictSet(D.first_route, e.v,
                                                 relaxed_route(D.first_route, start, u, e.rid)),
                         heap |-> D.heap \cup {<<nd, e.v>>}]
                   ELSE D
         IN relax_edges(D1, start, u, d, edges, k + 1)

\* one iteration of `while heap` in dijkstra_first_route
dijkstra_iteration(g, start, D) ==
    LET top == heap_min(D.heap)
        d == top[1]
        u == top[2]
        popped == [D EXCEPT !.heap = @ \ {top}]
    IN IF d # DictGet(D.dist, u) THEN popped
       ELSE relax_edges(popped, start, u, d, IF u \in DOMAIN g THEN g[u] ELSE <<>>, 1)

dijkstra_start(start) ==
    [dist |-> [x \in {start} |-> 0],
     first_route |-> [x \in {start} |-> None],
     heap |-> {<<0, start>>}]

\* dijkstra: the same loop on (v, w) edges, returning dist alone
RECURSIVE dijkstra_loop(_, _, _)
dijkstra_loop(g, start, D) ==
    IF D.heap = {} THEN D.dist ELSE dijkstra_loop(g, start, dijkstra_iteration(g, start, D))

dijkstra(g, start) == dijkstra_loop(g, start, dijkstra_start(start))

----------------------------------------------------------------------------
(* The rows of the matrix *)

\* (sec + 60) // 60
round_minutes_up(sec) == (sec + 60) \div 60

\* int((sec + 30) // 60)
round_minutes(sec) == (sec + 30) \div 60

\* the index of rid in sorted({rid for rid in segment_routes.values() if rid is not None})
route_index_get(routes, rid) ==
    LET used == {routes[e] : e \in DOMAIN routes} \ {None}
    IN IF rid \in used THEN Cardinality({r \in used : r < rid}) ELSE None

\* Exact fractions [n, d] with d > 0 stand for the floats of the scores: 1.0 / m and
\* the running sum are monotone under rounding, so the order of two scores is the
\* order of the exact sums.
Frac(n, d) == [n |-> n, d |-> d]

RECURSIVE GCD(_, _)
GCD(a, b) == IF b = 0 THEN a ELSE GCD(b, a % b)

\* the fraction n / d in lowest terms, for d > 0
Reduced(n, d) == LET g == GCD(n, d) IN Frac(n \div g, d \div g)

FracAdd(a, b) == Reduced(a.n * b.d + b.n * a.d, a.d * b.d)

FracLeq(a, b) == a.n * b.d <= b.n * a.d

FracEq(a, b) == a.n * b.d = b.n * a.d

\* the sum with a zero entry counted as one minute
RECURSIVE harmonic_counts_zero(_)
harmonic_counts_zero(row) ==
    IF row = <<>> THEN Frac(0, 1)
    ELSE LET m == row[Len(row)]
             rest == harmonic_counts_zero(SubSeq(row, 1, Len(row) - 1))
         IN IF m = None THEN rest
            ELSE IF m <= 0 THEN FracAdd(rest, Frac(1, 1))
            ELSE FracAdd(rest, Frac(1, m))

\* score += 1.0 / float(m) for every entry that is neither None nor <= 0
RECURSIVE harmonic_centrality_from_minutes_row(_)
harmonic_centrality_from_minutes_row(row) ==
    IF row = <<>> THEN Frac(0, 1)
    ELSE LET m == row[Len(row)]
             rest == harmonic_centrality_from_minutes_row(SubSeq(row, 1, Len(row) - 1))
         IN IF m = None THEN rest
            ELSE IF m <= 0 THEN rest
            ELSE FracAdd(rest, Frac(1, m))

RECURSIVE positive_minutes(_)
positive_minutes(row) ==
    IF row = <<>> THEN <<>>
    ELSE LET m == row[Len(row)]
             rest == positive_minutes(SubSeq(row, 1, Len(row) - 1))
         IN IF m = None \/ m <= 0 THEN rest ELSE Append(rest, m)

\* None without a positive entry, else the middle value or the mean of the middle two
median_minutes_from_row(row) ==
    LET values == sorted(positive_minutes(row))
        n == Len(values)
    IN IF n = 0 THEN None
       ELSE IF n % 2 = 1 THEN Frac(values[(n \div 2) + 1], 1)
       ELSE Frac(values[n \div 2] + values[(n \div 2) + 1], 2)

\* int(round(transfer_penalty_minutes * 60)) with transfer_penalty_minutes = 4.0
transfer_penalty_seconds == 240

minutes_row(reps, dst) ==
    [j \in DOMAIN reps |->
        IF reps[j] \notin DOMAIN dst THEN None ELSE round_minutes(dst[reps[j]])]

route_row(reps, dst, fr, routes) ==
    [j \in DOMAIN reps |->
        IF reps[j] \notin DOMAIN dst THEN None
        ELSE LET rid == DictGet(fr, reps[j])
             IN IF rid # None THEN route_index_get(routes, rid) ELSE None]

----------------------------------------------------------------------------
(* ServiceFilter: calendar.txt and trips.txt *)

\* a calendar row is the sequence of its day flags, monday..sunday
detect_weekday_service_ids(cal) ==
    IF ~cal.present THEN NoneSet
    ELSE SomeSet({sid \in DOMAIN cal.rows :
            /\ \A d \in 1..5 : cal.rows[sid][d] = "1"
            /\ cal.rows[sid][6] = "0"
            /\ cal.rows[sid][7] = "0"})

detect_weekend_service_ids(cal) ==
    IF ~cal.present THEN NoneSet
    ELSE SomeSet({sid \in DOMAIN cal.rows :
            /\ (cal.rows[sid][6] = "1" \/ cal.rows[sid][7] = "1")
            /\ ~(\E d \in 1..5 : cal.rows[sid][d] = "1")})

\* main() turns an empty service set into None before loading the trips
none_if_empty(service_ids) ==
    IF ~service_ids.none /\ service_ids.ids = {} THEN NoneSet ELSE service_ids

load_trips_for_services(service_ids) ==
    IF service_ids.none THEN NoneSet
    ELSE IF service_ids.ids = {} THEN NoneSet
    ELSE SomeSet({tid \in DOMAIN trip_services : trip_services[tid] \in service_ids.ids})

----------------------------------------------------------------------------
(* Rows of stop_times.txt *)

Trips == {1, 2}
StopIds == {1, 2, 3}
Routes == {1, 2}
Services == {1, 2}

Row(t, s, a, d, q) == [trip_id |-> t, stop_id |-> s, arr |-> a, dep |-> d, seq |-> q]

\* well-formed rows at 07:00:00, 07:00:01 and 08:00:00
ChainTimes == {7 * 3600, 7 * 3600 + 1, 8 * 3600}

ValidRows == {Row(t, s, x, x, q) : t \in Trips, s \in {1, 2}, x \in ChainTimes, q \in {1, 2, 3}}

\* rows with one anomaly: no stop id, a stop that is not in stops.txt, no stop_sequence,
\* no arrival time, no departure time, and a departure at 06:59:59, before every window
AnomalousRows ==
    {Row(t, None, 7 * 3600 + 1, 7 * 3600 + 1, 2) : t \in Trips}
    \cup {Row(t, 3, 7 * 3600 + 1, 7 * 3600 + 1, 2) : t \in Trips}
    \cup {Row(t, 2, 7 * 3600 + 1, 7 * 3600 + 1, None) : t \in Trips}
    \cup {Row(t, 2, None, 7 * 3600, 2) : t \in Trips}
    \cup {Row(t, 2, 7 * 3600 + 1, None, 2) : t \in Trips}
    \cup {Row(t, 1, 7 * 3600 - 1, 7 * 3600 - 1, 1) : t \in Trips}

ChainRows == ValidRows \cup AnomalousRows

\* 07:00:00 and 07:00:01 (weekday_am), 16:00:00 and 16:00:01 (weekday_pm and weekend)
ServiceTimes == {7 * 3600, 7 * 3600 + 1, 16 * 3600, 16 * 3600 + 1}

ServiceRows == {Row(t, q, x, x, q) : t \in Trips, q \in {1, 2}, x \in ServiceTimes}

\* 07:00:00, 07:00:01, 08:00:00
InterleaveTimes == {7 * 3600, 7 * 3600 + 1, 8 * 3600}

InterleaveRows == {Row(t, q, x, x, q) : t \in Trips, q \in {1, 2}, x \in InterleaveTimes}

WeekdayFlags == <<"1", "1", "1", "1", "1", "0", "0">>
WeekendFlags == <<"0", "0", "0", "0", "0", "1", "1">>
EverydayFlags == <<"1", "1", "1", "1", "1", "1", "1">>

Calendars ==
    {[present |-> FALSE, rows |-> EmptyDict]}
    \cup {[present |-> TRUE, rows |-> [sid \in {1} |-> f]] :
            f \in {WeekdayFlags, WeekendFlags, EverydayFlags}}
    \cup {[present |-> TRUE, rows |-> [sid \in {1, 2} |-> IF sid = 1 THEN f ELSE g]] :
            f \in {WeekdayFlags, WeekendFlags, EverydayFlags},
            g \in {WeekdayFlags, WeekendFlags, EverydayFlags}}

\* trips.txt: trip 1 always has a row, trip 2 may have none
TripsTables ==
    {[t \in {1} |-> a] : a \in Services}
    \cup {[t \in {1, 2} |-> IF t = 1 THEN a ELSE b] : a \in Services, b \in Services}

----------------------------------------------------------------------------
(* Actions *)

SetStream(S) ==
    /\ trip_state' = S.trip_state
    /\ seg_lists_by_window' = S.seg_lists_by_window
    /\ seg_route_counts_by_window' = S.seg_route_counts_by_window
    /\ active_stops' = S.active_stops

\* main() derives the allowed trip sets from calendar.txt and trips.txt
LoadFeed ==
    /\ pc = "load"
    /\ pc' = "stream"
    /\ allowed_weekday_trips' =
          load_trips_for_services(none_if_empty(detect_weekday_service_ids(calendar)))
    /\ allowed_weekend_trips' =
          load_trips_for_services(none_if_empty(detect_weekend_service_ids(calendar)))
    /\ UNCHANGED <<toolVars, stops, parent_to_children, trip_routes, trip_services, calendar,
                   streamVars, histVars, aggVars, graphVars>>

\* the stop_times loop reads one row
ReadRow ==
    /\ pc = "stream"
    /\ nrows < MaxRows
    /\ \E row \in ChainRows :
        /\ SetStream(process_row(StreamState, row))
        /\ curRow' = row
        /\ out_of_order' = seq_not_above(state_get(trip_state, chain_key(row.trip_id)), row)
        /\ lastRow' = DictSet(lastRow, row.trip_id, row)
        /\ nrows' = nrows + 1
    /\ UNCHANGED <<toolVars, pc, feedVars, aggVars, tripRows, graphVars>>

\* the stop_times loop reads one row (rows of the service specification)
ReadServiceRow ==
    /\ pc = "stream"
    /\ nrows < MaxServiceRows
    /\ \E row \in ServiceRows :
        /\ SetStream(process_row(StreamState, row))
        /\ curRow' = row
        /\ out_of_order' = seq_not_above(state_get(trip_state, chain_key(row.trip_id)), row)
        /\ lastRow' = DictSet(lastRow, row.trip_id, row)
        /\ nrows' = nrows + 1
    /\ UNCHANGED <<toolVars, pc, feedVars, aggVars, tripRows, graphVars>>

\* the stop_times loop reads the next row of one of the trips
ReadTripRow ==
    /\ pc = "stream"
    /\ \E row \in InterleaveRows :
        /\ Len(tripRows[row.trip_id]) < MaxTripRows
        /\ SetStream(process_row(StreamState, row))
        /\ curRow' = row
        /\ out_of_order' = seq_not_above(state_get(trip_state, chain_key(row.trip_id)), row)
        /\ lastRow' = DictSet(lastRow, row.trip_id, row)
        /\ tripRows' = [tripRows EXCEPT ![row.trip_id] = Append(@, row)]
        /\ nrows' = nrows + 1
    /\ UNCHANGED <<toolVars, pc, feedVars, aggVars, graphVars>>

\* end of the stream: the per-window medians and dominant routes
Aggregate ==
    /\ pc = "stream"
    /\ pc' = "aggregated"
    /\ weights_by_window' = segment_weights_of(seg_lists_by_window)
    /\ routes_by_window' = segment_routes_of(seg_route_counts_by_window)
    /\ UNCHANGED <<toolVars, feedVars, streamVars, histVars, graphVars>>

InitCorridorsIdle ==
    /\ neighborhoods = <<>>
    /\ hub_indices = <<>>
    /\ corridors = <<>>
    /\ top_n = 180

InitDerivedIdle ==
    /\ region_cells = <<>>
    /\ derived_regions = <<>>
    /\ derived_features = <<>>
    /\ named_regions = <<>>
    /\ tracts_list = <<>>
    /\ derived_minutes = <<>>
    /\ derived_first_route = <<>>

InitSetupIdle ==
    /\ time_text = [none |-> TRUE, text |-> <<>>]
    /\ time_seconds = None
    /\ namelist = {}
    /\ features = <<>>
    /\ neighborhood_list = <<>>
    /\ written = {}
    /\ exit_code = None
    /\ derived_tracts = <<>>

InitToolsIdle == InitDerivedIdle /\ InitCorridorsIdle /\ InitSetupIdle

InitGraphIdle ==
    /\ transfer_seconds = 120
    /\ segment_weights = EmptyDict
    /\ segment_routes = EmptyDict
    /\ graph = EmptyDict
    /\ rep_stops = <<>>
    /\ origin = 0
    /\ dist = EmptyDict
    /\ first_route = EmptyDict
    /\ heap = {}
    /\ minutes_matrix = <<>>
    /\ first_route_matrix = <<>>
    /\ centrality_scores = <<>>
    /\ median_minutes = <<>>
    /\ penalized_scores = <<>>

InitStreamCommon ==
    /\ trip_state = EmptyDict
    /\ seg_lists_by_window = [w \in WindowIds |-> EmptyDict]
    /\ seg_route_counts_by_window = [w \in WindowIds |-> EmptyDict]
    /\ active_stops = {}
    /\ weights_by_window = [w \in WindowIds |-> EmptyDict]
    /\ routes_by_window = [w \in WindowIds |-> EmptyDict]
    /\ lastRow = EmptyDict
    /\ curRow = Row(None, None, None, None, None)
    /\ out_of_order = FALSE
    /\ tripRows = [t \in Trips |-> <<>>]
    /\ nrows = 0
    /\ InitGraphIdle
    /\ InitToolsIdle

\* stops 1 and 2 are in stops.txt, stop 3 is not; no calendar.txt
Init ==
    /\ InitStreamCommon
    /\ pc = "stream"
    /\ stops = {1, 2}
    /\ parent_to_children = EmptyDict
    /\ trip_routes \in {[t \in Trips |-> t], [t \in {1} |-> 1]}
    /\ trip_services = [t \in Trips |-> 1]
    /\ calendar = [present |-> FALSE, rows |-> EmptyDict]
    /\ allowed_weekday_trips = NoneSet
    /\ allowed_weekend_trips = NoneSet

Next == ReadRow \/ Aggregate

Spec == Init /\ [][Next]_vars

\* the service specification: any calendar.txt and trips.txt of the bounded sets
InitService ==
    /\ InitStreamCommon
    /\ pc = "load"
    /\ stops = {1, 2}
    /\ parent_to_children = EmptyDict
    /\ trip_routes = [t \in Trips |-> t]
    /\ trip_services \in TripsTables
    /\ calendar \in Calendars
    /\ allowed_weekday_trips = NoneSet
    /\ allowed_weekend_trips = NoneSet

NextService == LoadFeed \/ ReadServiceRow \/ Aggregate

SpecService == InitService /\ [][NextService]_vars

\* the interleaving specification: the rows of the two trips arrive in any order
InitInterleave ==
    /\ InitStreamCommon
    /\ pc = "stream"
    /\ stops = {1, 2}
    /\ parent_to_children = EmptyDict
    /\ trip_routes \in {[t \in Trips |-> 1], [t \in Trips |-> t]}
    /\ trip_services = [t \in Trips |-> 1]
    /\ calendar = [present |-> FALSE, rows |-> EmptyDict]
    /\ allowed_weekday_trips = NoneSet
    /\ allowed_weekend_trips = NoneSet

NextInterleave == ReadTripRow \/ Aggregate

SpecInterleave == InitInterleave /\ [][NextInterleave]_vars

----------------------------------------------------------------------------
(* The graph specification: one window of main()'s loop over the windows,    *)
(* from the window's segments to its minutes and first_route matrices.       *)

SetSolve(D) ==
    /\ dist' = D.dist
    /\ first_route' = D.first_route
    /\ heap' = D.heap

\* graph = build_graph(...), then the first call of dijkstra_first_route
BuildGraph ==
    /\ pc = "build"
    /\ pc' = "solve"
    /\ graph' = build_graph(stops, parent_to_children, segment_weights, segment_routes,
                            transfer_seconds)
    /\ origin' = 1
    /\ SetSolve(dijkstra_start(rep_stops[1]))
    /\ UNCHANGED <<toolVars, feedVars, streamVars, histVars, aggVars, matrixVars, scoreVars,
                   transfer_seconds, segment_weights, segment_routes, rep_stops>>

\* one iteration of the while loop of dijkstra_first_route
DijkstraStep ==
    /\ pc = "solve"
    /\ heap # {}
    /\ SetSolve(dijkstra_iteration(graph, rep_stops[origin],
                                   [dist |-> dist, first_route |-> first_route, heap |-> heap]))
    /\ UNCHANGED <<toolVars, pc, origin, feedVars, streamVars, histVars, aggVars, matrixVars, scoreVars,
                   windowVars>>

\* dijkstra_first_route returned: the row of the origin, then the next origin
FinishOrigin ==
    /\ pc = "solve"
    /\ heap = {}
    /\ minutes_matrix' = Append(minutes_matrix, minutes_row(rep_stops, dist))
    /\ first_route_matrix' =
          Append(first_route_matrix, route_row(rep_stops, dist, first_route, segment_routes))
    /\ IF origin < Len(rep_stops)
       THEN /\ origin' = origin + 1
            /\ SetSolve(dijkstra_start(rep_stops[origin + 1]))
            /\ pc' = pc
       ELSE /\ pc' = "scores"
            /\ UNCHANGED <<origin, dist, first_route, heap>>
    /\ UNCHANGED <<toolVars, feedVars, streamVars, histVars, aggVars, windowVars, scoreVars>>

\* the centrality metrics of the window: harmonic and median of every row, then the
\* harmonic scores of the graph rebuilt with the transfer penalty
Centrality ==
    /\ pc = "scores"
    /\ pc' = "done"
    /\ centrality_scores' =
          [i \in DOMAIN minutes_matrix |->
              harmonic_centrality_from_minutes_row(minutes_matrix[i])]
    /\ median_minutes' =
          [i \in DOMAIN minutes_matrix |-> median_minutes_from_row(minutes_matrix[i])]
    /\ penalized_scores' =
          LET penalized_graph ==
                  build_graph(stops, parent_to_children, segment_weights, segment_routes,
                              transfer_seconds + transfer_penalty_seconds)
          IN [i \in DOMAIN rep_stops |->
                 harmonic_centrality_from_minutes_row(
                     minutes_row(rep_stops, dijkstra(penalized_graph, rep_stops[i])))]
    /\ UNCHANGED <<toolVars, feedVars, streamVars, histVars, aggVars, windowVars, solveVars, matrixVars>>

\* the segments of a window: at most MaxSegments edges between the stops, each with a
\* median in 1..3599 and the dominant route of its trips (None when they have no route)
SegmentOptions ==
    {[w |-> 60, rid |-> 1], [w |-> 180, rid |-> 2], [w |-> 60, rid |-> None]}

SegmentEdges == {e \in {1, 2, 3} \X {1, 2, 3} : e[1] # e[2]}

SegmentMaps ==
    UNION {[E -> SegmentOptions] : E \in {F \in SUBSET SegmentEdges : Cardinality(F) <= MaxSegments}}

\* stops.txt: no complex, a complex of one stop, of two stops, of three stops;
\* the parent 3 is itself a stop, the parent 4 is not
ParentMaps ==
    {EmptyDict,
     [p \in {4} |-> <<1>>],
     [p \in {3} |-> <<1, 2>>],
     [p \in {4} |-> <<2, 3>>],
     [p \in {4} |-> <<1, 2, 3>>]}

InitGraph ==
    /\ pc = "build"
    /\ stops = {1, 2, 3}
    /\ parent_to_children \in ParentMaps
    /\ trip_routes = [t \in Trips |-> t]
    /\ trip_services = [t \in Trips |-> 1]
    /\ calendar = [present |-> FALSE, rows |-> EmptyDict]
    /\ allowed_weekday_trips = NoneSet
    /\ allowed_weekend_trips = NoneSet
    /\ trip_state = EmptyDict
    /\ seg_lists_by_window = [w \in WindowIds |-> EmptyDict]
    /\ seg_route_counts_by_window = [w \in WindowIds |-> EmptyDict]
    /\ active_stops = stops
    /\ weights_by_window = [w \in WindowIds |-> EmptyDict]
    /\ routes_by_window = [w \in WindowIds |-> EmptyDict]
    /\ lastRow = EmptyDict
    /\ curRow = Row(None, None, None, None, None)
    /\ out_of_order = FALSE
    /\ tripRows = [t \in Trips |-> <<>>]
    /\ nrows = 0
    /\ transfer_seconds \in {0, 20, 120}
    /\ \E m \in SegmentMaps :
        /\ segment_weights = [e \in DOMAIN m |-> m[e].w]
        /\ segment_routes = [e \in DOMAIN m |-> m[e].rid]
    /\ graph = EmptyDict
    /\ rep_stops \in {<<1, 2, 3>>, <<3, 1, 3>>}
    /\ origin = 0
    /\ dist = EmptyDict
    /\ first_route = EmptyDict
    /\ heap = {}
    /\ minutes_matrix = <<>>
    /\ first_route_matrix = <<>>
    /\ centrality_scores = <<>>
    /\ median_minutes = <<>>
    /\ penalized_scores = <<>>
    /\ InitToolsIdle

NextGraph == BuildGraph \/ DijkstraStep \/ FinishOrigin \/ Centrality

SpecGraph == InitGraph /\ [][NextGraph]_vars

----------------------------------------------------------------------------
(* Strings of tools/build_derived.py: a string is the sequence of its        *)
(* characters, so that concatenation, strip(), lower() and split() are       *)
(* computed on the characters as Python computes them.                       *)

UpperChars ==
    <<"A", "B", "C", "D", "E", "F", "G", "H", "I", "J", "K", "L", "M",
      "N", "O", "P", "Q", "R", "S", "T", "U", "V", "W", "X", "Y", "Z">>

LowerChars ==
    <<"a", "b", "c", "d", "e", "f", "g", "h", "i", "j", "k", "l", "m",
      "n", "o", "p", "q", "r", "s", "t", "u", "v", "w", "x", "y", "z">>

DigitChars == {"0", "1", "2", "3", "4", "5", "6", "7", "8", "9"}

lower_char(c) ==
    IF \E k \in DOMAIN UpperChars : UpperChars[k] = c
    THEN LowerChars[CHOOSE k \in DOMAIN UpperChars : UpperChars[k] = c]
    ELSE c

\* str.lower()
lower(s) == [k \in DOMAIN s |-> lower_char(s[k])]

RECURSIVE lstrip(_)
lstrip(s) == IF s # <<>> /\ s[1] = " " THEN lstrip(Tail(s)) ELSE s

RECURSIVE rstrip(_)
rstrip(s) == IF s # <<>> /\ s[Len(s)] = " " THEN rstrip(SubSeq(s, 1, Len(s) - 1)) ELSE s

\* str.strip()
strip(s) == rstrip(lstrip(s))

StartsWith(s, p) == Len(s) >= Len(p) /\ SubSeq(s, 1, Len(p)) = p

\* sub in s
Contains(s, sub) == \E k \in 0..(Len(s) - Len(sub)) : SubSeq(s, k + 1, k + Len(sub)) = sub

\* str.replace(old, new), left to right over the non-overlapping occurrences
RECURSIVE replace(_, _, _)
replace(s, old, new) ==
    IF s = <<>> THEN <<>>
    ELSE IF StartsWith(s, old)
         THEN new \o replace(SubSeq(s, Len(old) + 1, Len(s)), old, new)
         ELSE <<s[1]>> \o replace(Tail(s), old, new)

\* str.split(sep) for a separator of one character
RECURSIVE split(_, _)
split(s, sep) ==
    IF ~\E k \in DOMAIN s : s[k] = sep THEN <<s>>
    ELSE LET k == CHOOSE i \in DOMAIN s : s[i] = sep /\ \A j \in 1..(i - 1) : s[j] # sep
         IN <<SubSeq(s, 1, k - 1)>> \o split(SubSeq(s, k + 1, Len(s)), sep)

\* str.split(): the words between runs of spaces
words(s) == SelectSeq(split(s, " "), LAMBDA w : w # <<>>)

RECURSIVE Concat(_)
Concat(ss) == IF ss = <<>> THEN <<>> ELSE Head(ss) \o Concat(Tail(ss))

\* the elements of a list without the later repetitions of a lower-cased key
RECURSIVE dedupe_lower(_)
dedupe_lower(ts) ==
    IF ts = <<>> THEN <<>>
    ELSE LET rest == dedupe_lower(SubSeq(ts, 1, Len(ts) - 1))
             t == ts[Len(ts)]
         IN IF \E k \in DOMAIN rest : lower(rest[k]) = lower(t) THEN rest ELSE Append(rest, t)

stripped_parts(ps) == [i \in DOMAIN ps |-> strip(ps[i])]

\* the stripped parts between the "-" of every chunk, in order
parts_of_chunks(chunks) ==
    Concat([k \in DOMAIN chunks |-> stripped_parts(split(chunks[k], "-"))])

\* out or [name]
or_whole_name(out, name) == IF out # <<>> THEN out ELSE <<name>>

split_compound_name(name) ==
    IF name = <<>> THEN <<>>
    ELSE or_whole_name(
             dedupe_lower(SelectSeq(
                 parts_of_chunks(split(replace(replace(name, <<"&">>, <<"/">>),
                                               <<" ", "a", "n", "d", " ">>, <<"/">>), "/")),
                 LAMBDA p : p # <<>>)),
             name)

_DIR_TOKENS ==
    {<<"n", "o", "r", "t", "h">>, <<"s", "o", "u", "t", "h">>, <<"e", "a", "s", "t">>,
     <<"w", "e", "s", "t">>, <<"c", "e", "n", "t", "r", "a", "l">>,
     <<"u", "p", "p", "e", "r">>, <<"l", "o", "w", "e", "r">>, <<"m", "i", "d">>,
     <<"m", "i", "d", "t", "o", "w", "n">>, <<"d", "o", "w", "n", "t", "o", "w", "n">>}

\* re.sub(r"\([^)]*\)", " ", s)
RECURSIVE strip_parenthesized(_)
strip_parenthesized(s) ==
    IF s = <<>> THEN <<>>
    ELSE IF s[1] = "(" /\ \E k \in DOMAIN s : s[k] = ")"
         THEN LET k == CHOOSE i \in DOMAIN s : s[i] = ")" /\ \A j \in 1..(i - 1) : s[j] # ")"
              IN <<" ">> \o strip_parenthesized(SubSeq(s, k + 1, Len(s)))
         ELSE <<s[1]>> \o strip_parenthesized(Tail(s))

IsLowerAlnum(c) == c \in DigitChars \/ \E k \in DOMAIN LowerChars : LowerChars[k] = c

\* re.sub(r"[^a-z0-9 ]+", " ", s), up to the number of spaces
alnum_or_space(s) == [k \in DOMAIN s |-> IF IsLowerAlnum(s[k]) \/ s[k] = " " THEN s[k] ELSE " "]

\* the words st and ft spelled out
saint_fort(w) ==
    IF w = <<"s", "t">> THEN <<"s", "a", "i", "n", "t">>
    ELSE IF w = <<"f", "t">> THEN <<"f", "o", "r", "t">>
    ELSE w

tokens_of_words(ws) ==
    SelectSeq([k \in DOMAIN ws |-> saint_fort(ws[k])], LAMBDA t : t \notin _DIR_TOKENS)

\* the list of tokens; the callers take set() of it
normalize_name_tokens(name) ==
    IF name = <<>> THEN <<>>
    ELSE tokens_of_words(words(alnum_or_space(strip_parenthesized(
             replace(lower(name), <<"&">>, <<" ", "a", "n", "d", " ">>)))))

----------------------------------------------------------------------------
(* tools/build_derived.py: the derived regions, their names and weights.     *)
(* Areas are integers of one common unit; ids are positive integers.         *)

Name(primary, confidence, aliases) ==
    [primary |-> primary, confidence |-> confidence, aliases |-> aliases]

\* sorted(region_gazetteer[region_id].items(), key=lambda x: -x[1]): stable
RECURSIVE ranked_by_area(_)
ranked_by_area(items) ==
    IF items = <<>> THEN <<>>
    ELSE LET rest == ranked_by_area(SubSeq(items, 1, Len(items) - 1))
             x == items[Len(items)]
             k == Cardinality({i \in DOMAIN rest : rest[i].area >= x.area})
         IN SubSeq(rest, 1, k) \o <<x>> \o SubSeq(rest, k + 1, Len(rest))

RECURSIVE SumAreas(_)
SumAreas(items) == IF items = <<>> THEN 0 ELSE Head(items).area + SumAreas(Tail(items))

Names(items) == [k \in DOMAIN items |-> items[k].gname]

SetOf(s) == {s[k] : k \in DOMAIN s}

NoMatch == [part |-> <<>>, score |-> Frac(0, 1)]

\* one pass of the loop over the parts of a compound name
better_match(before, part, part_tokens, station_tokens) ==
    IF part_tokens = {} \/ station_tokens \cap part_tokens = {} THEN before
    ELSE IF FracLeq(Frac(Cardinality(station_tokens \cap part_tokens), Cardinality(part_tokens)),
                    before.score)
    THEN before
    ELSE [part |-> part,
          score |-> Frac(Cardinality(station_tokens \cap part_tokens), Cardinality(part_tokens))]

\* matched_part and best_score after the loop over the parts of a compound name;
\* the part is the empty string where the code has None
RECURSIVE best_part_match(_, _)
best_part_match(parts, station_tokens) ==
    IF parts = <<>> THEN NoMatch
    ELSE better_match(best_part_match(SubSeq(parts, 1, Len(parts) - 1), station_tokens),
                      parts[Len(parts)],
                      SetOf(normalize_name_tokens(parts[Len(parts)])),
                      station_tokens)

compound_match(parts, station_tokens) ==
    IF Len(parts) > 1 /\ station_tokens # {} THEN best_part_match(parts, station_tokens)
    ELSE NoMatch

\* the choice among the compound part, the top name and the pair of names; primary
\* stays the empty string where the code leaves it None
gazetteer_choice(ranked, total, matched) ==
    LET top_name == ranked[1].gname
        top_frac == IF total # 0 THEN Frac(ranked[1].area, total) ELSE Frac(0, 1)
        others == SubSeq(Names(ranked), 2, IF Len(ranked) < 4 THEN Len(ranked) ELSE 4)
    IN IF matched.part # <<>> /\ FracLeq(Frac(1, 2), matched.score)
       THEN Name(matched.part,
                 IF FracLeq(Frac(35, 100), top_frac) THEN top_frac ELSE Frac(35, 100),
                 <<top_name>> \o SelectSeq(others, LAMBDA n : n # top_name))
       ELSE IF FracLeq(Frac(1, 2), top_frac)
       THEN Name(top_name, top_frac, others)
       ELSE IF Len(ranked) > 1 /\ FracLeq(Frac(1, 4), top_frac)
               /\ FracLeq(Frac(1, 4), Frac(ranked[2].area, total))
       THEN Name(top_name \o <<" ", "/", " ">> \o ranked[2].gname, top_frac, Tail(others))
       ELSE Name(<<>>, Frac(2, 10), <<>>)

\* the gazetteer phase of the naming of a region with an overlay
gazetteer_name(gaz, station_name) ==
    gazetteer_choice(ranked_by_area(gaz), SumAreas(gaz),
                     compound_match(split_compound_name(ranked_by_area(gaz)[1].gname),
                                    SetOf(normalize_name_tokens(station_name))))

\* the first part of the tract name that occurs in the station name, or the empty
\* string for None
RECURSIVE first_part_in(_, _)
first_part_in(parts, station_name) ==
    IF parts = <<>> THEN <<>>
    ELSE IF Contains(lower(station_name), lower(Head(parts))) THEN Head(parts)
    ELSE first_part_in(Tail(parts), station_name)

\* the name from the tract name, else from the anchor station
fallback_name(best_part, station_name, tract_name) ==
    IF best_part # <<>>
    THEN Name(best_part, Frac(35, 100), <<tract_name>>)
    ELSE Name(station_name \o <<" ", "a", "r", "e", "a">>, Frac(2, 10),
              <<station_name, tract_name>>)

named_or_fallback(g, station_name, tract_name) ==
    IF g.primary # <<>> THEN g
    ELSE fallback_name(first_part_in(split_compound_name(tract_name), station_name),
                       station_name, tract_name)

\* the naming of one region: gazetteer, then tract name, then anchor station
name_region(gaz, station_name, tract_name) ==
    named_or_fallback(IF gaz # <<>> THEN gazetteer_name(gaz, station_name)
                      ELSE Name(<<>>, Frac(2, 10), <<>>),
                      station_name, tract_name)

\* the thousandths cut off instead of rounded
round3_down(f) == (1000 * f.n) \div f.d

\* round(float(confidence), 3), in thousandths, a tie going to the even neighbor
round3(f) ==
    LET q == (1000 * f.n) \div f.d
        r == (1000 * f.n) % f.d
    IN IF 2 * r < f.d THEN q
       ELSE IF 2 * r > f.d THEN q + 1
       ELSE IF q % 2 = 0 THEN q ELSE q + 1

\* compass_label on grid coordinates one unit of which is far above 1e-6; the
\* empty string stands for None. The bins of 45 degrees start 22.5 degrees below
\* the axis: the tangent of 22.5 degrees is 0.4142.
compass_label(lat, lon, slat, slon) ==
    LET dx == lon - slon
        dy == lat - slat
        ax == IF dx < 0 THEN -dx ELSE dx
        ay == IF dy < 0 THEN -dy ELSE dy
    IN IF dx = 0 /\ dy = 0 THEN <<>>
       ELSE IF 10000 * ay < 4142 * ax THEN (IF dx > 0 THEN <<"E">> ELSE <<"W">>)
       ELSE IF 10000 * ax < 4142 * ay THEN (IF dy > 0 THEN <<"N">> ELSE <<"S">>)
       ELSE IF dy > 0 THEN (IF dx > 0 THEN <<"N", "E">> ELSE <<"N", "W">>)
       ELSE (IF dx > 0 THEN <<"S", "E">> ELSE <<"S", "W">>)

\* (name or "").strip().lower()
normalize_name_key(name) == lower(strip(name))

\* the aliases of a region after add_alias(region, alias)
add_alias(aliases, alias) ==
    IF alias = <<>> THEN aliases
    ELSE <<alias>> \o SelectSeq(aliases, LAMBDA a : a # <<>> /\ a # alias)

\* f"{name} · {suffix}"
suffixed(name, suffix) == name \o <<" ", "·", " ">> \o suffix

renamed_without_alias(region, new_name) == [region EXCEPT !.name = new_name]

renamed(region, new_name) ==
    [region EXCEPT !.aliases = add_alias(region.aliases, region.name), !.name = new_name]

name_counts(regions, key) ==
    Cardinality({k \in DOMAIN regions : normalize_name_key(regions[k].name) = key})

IsDuplicate(regions, region) ==
    LET key == normalize_name_key(region.name)
    IN key # <<>> /\ name_counts(regions, key) > 1

\* str(idx) for the ordinals of a group
str(idx) ==
    IF idx < 10 THEN <<CHOOSE c \in DigitChars : c = ToString(idx)>>
    ELSE <<ToString(idx \div 10), ToString(idx % 10)>>

\* first pass: the anchor station appended to the names that occur more than once
disambiguate_by_station(regions) ==
    [k \in DOMAIN regions |->
        LET region == regions[k]
        IN IF ~IsDuplicate(regions, region) \/ region.anchor_station = <<>> THEN region
           ELSE renamed(region, suffixed(region.name, region.anchor_station))]

\* second pass: the compass direction from the anchor station to the centroid
disambiguate_by_direction(regions) ==
    [k \in DOMAIN regions |->
        LET region == regions[k]
            dir_label == compass_label(region.centroid[1], region.centroid[2],
                                       region.anchor_station_lat, region.anchor_station_lon)
        IN IF ~IsDuplicate(regions, region) \/ dir_label = <<>> THEN region
           ELSE renamed(region, suffixed(region.name, dir_label))]

\* the third pass without the test len(group) <= 1: every region is numbered
disambiguate_every_by_ordinal(regions) ==
    [k \in DOMAIN regions |->
        renamed(regions[k],
                suffixed(regions[k].name,
                         str(Cardinality({j \in DOMAIN regions :
                                 /\ normalize_name_key(regions[j].name) =
                                       normalize_name_key(regions[k].name)
                                 /\ \/ regions[j].id < regions[k].id
                                    \/ regions[j].id = regions[k].id /\ j < k}) + 1)))]

\* third pass: the ordinal of the region in its group sorted by id
disambiguate_by_ordinal(regions) ==
    [k \in DOMAIN regions |->
        LET region == regions[k]
            key == normalize_name_key(region.name)
            before == {j \in DOMAIN regions :
                          /\ normalize_name_key(regions[j].name) = key
                          /\ \/ regions[j].id < region.id
                             \/ regions[j].id = region.id /\ j < k}
        IN IF ~IsDuplicate(regions, region) THEN region
           ELSE renamed(region, suffixed(region.name, str(Cardinality(before) + 1)))]

RECURSIVE first_max_area(_)
first_max_area(items) ==
    IF Len(items) = 1 THEN items[1]
    ELSE LET best == first_max_area(SubSeq(items, 1, Len(items) - 1))
         IN IF items[Len(items)].area > best.area THEN items[Len(items)] ELSE best

\* {k: v / total_tw for k, v in tw.items()} if total_tw else {}, in the order of tw
normalized_tract_weights(tw) ==
    LET total_tw == SumAreas(tw)
    IN IF total_tw # 0
       THEN [k \in DOMAIN tw |-> [tract |-> tw[k].tract, w |-> Frac(tw[k].area, total_tw)]]
       ELSE <<>>

\* the first tract of tw
representative_tract_first(tw) == IF tw # <<>> THEN tw[1].tract ELSE None

\* max(tw.items(), key=lambda x: x[1])[0] if tw else None
representative_tract(tw) == IF tw # <<>> THEN first_max_area(tw).tract ELSE None

region_record(cells, n) ==
    [id |-> cells.id,
     name |-> n.primary,
     aliases |-> n.aliases,
     name_confidence |-> round3(n.confidence),
     anchor_station |-> cells.station_name,
     centroid |-> cells.centroid,
     anchor_station_lat |-> cells.station_lat,
     anchor_station_lon |-> cells.station_lon,
     representative_tract_id |-> representative_tract(cells.tw),
     tract_weights |-> normalized_tract_weights(cells.tw)]

\* one pass of the loop over region_cells: the region of the list derived_regions
derived_region(cells) ==
    region_record(cells, name_region(cells.gazetteer, cells.station_name, cells.tract_name))

\* the properties of the feature of a region that the claims read
feature_of(region) ==
    [atlas_id |-> region.id,
     primary_name |-> region.name,
     aliases |-> region.aliases,
     name_confidence |-> region.name_confidence]

----------------------------------------------------------------------------
(* The derived matrix of a profile: the tract minutes averaged over the      *)
(* regions with the tract weights. NoFrac stands for None among fractions.   *)

NoFrac == Frac(0, 0)

FracMul(a, b) == Reduced(a.n * b.n, a.d * b.d)

FracDiv(a, b) == Reduced(a.n * b.d, a.d * b.n)

\* int(round(x)): the nearest integer, a tie going to the even one
round_half_even(f) ==
    LET q == f.n \div f.d
        r == f.n % f.d
    IN IF 2 * r < f.d THEN q
       ELSE IF 2 * r > f.d THEN q + 1
       ELSE IF q % 2 = 0 THEN q ELSE q + 1

\* tract_idx.get(str(tid)): the last ordinal with that id, 0-based, or None
tract_idx_get(tracts, tid) ==
    LET at == {k \in DOMAIN tracts : tracts[k] = tid}
    IN IF at = {} THEN None ELSE (CHOOSE k \in at : \A j \in at : j <= k) - 1

RECURSIVE SumW(_)
SumW(weights) ==
    IF weights = <<>> THEN Frac(0, 1) ELSE FracAdd(SumW(Tail(weights)), Head(weights).w)

\* the (idx, w) pairs of a region: its tracts found in tract_idx, normalized
normalized_weights(weights, total) ==
    IF total.n > 0
    THEN [k \in DOMAIN weights |-> [idx |-> weights[k].idx, w |-> FracDiv(weights[k].w, total)]]
    ELSE weights

indexed_weights(tracts, tw) ==
    SelectSeq([k \in DOMAIN tw |-> [idx |-> tract_idx_get(tracts, tw[k].tract), w |-> tw[k].w]],
              LAMBDA p : p.idx # None)

region_weights_of(tracts, tw) ==
    normalized_weights(indexed_weights(tracts, tw), SumW(indexed_weights(tracts, tw)))

\* minutes[i][j] with the 0-based i and j, None past the end of a row or of the matrix
minutes_at(minutes, i, j) ==
    IF i + 1 \in DOMAIN minutes /\ j + 1 \in DOMAIN minutes[i + 1]
    THEN minutes[i + 1][j + 1] ELSE None

\* num and den of the weighted mean of the defined values
RECURSIVE weighted_sums(_, _)
weighted_sums(wlist, values) ==
    IF wlist = <<>> THEN [num |-> Frac(0, 1), den |-> Frac(0, 1)]
    ELSE LET k == Len(wlist)
             rest == weighted_sums(SubSeq(wlist, 1, k - 1), SubSeq(values, 1, k - 1))
         IN IF values[k] = NoFrac THEN rest
            ELSE [num |-> FracAdd(rest.num, FracMul(wlist[k].w, values[k])),
                  den |-> FracAdd(rest.den, wlist[k].w)]

\* the mean without the division by the weights of the defined values
mean_without_den(s) == IF s.den.n = 0 THEN NoFrac ELSE s.num

\* None if den == 0 else num / den
mean_of(s) == IF s.den.n = 0 THEN NoFrac ELSE FracDiv(s.num, s.den)

weighted_mean(wlist, values) == mean_of(weighted_sums(wlist, values))

\* float(m), None staying None
AsFrac(m) == IF m = None THEN NoFrac ELSE Frac(m, 1)

\* row_avg of one region: for every tract j the mean of minutes[i][j] over its tracts i
row_avg_of(minutes, T, wlist) ==
    [j \in 1..T |->
        weighted_mean(wlist, [k \in DOMAIN wlist |-> AsFrac(minutes_at(minutes, wlist[k].idx, j - 1))])]

\* the mean cut to an integer and raised by one
rounded_mean_above(m) == IF m = NoFrac THEN None ELSE m.n \div m.d + 1

\* None if den == 0 else int(round(num / den))
rounded_mean(m) == IF m = NoFrac THEN None ELSE round_half_even(m)

\* minutes'[r][s] from row_avg[r] and the weights of s
derived_cell(wlist, row) ==
    rounded_mean(weighted_mean(wlist, [k \in DOMAIN wlist |-> row[wlist[k].idx + 1]]))

derived_rows(region_weights, row_avg) ==
    [r \in DOMAIN row_avg |->
        [s \in DOMAIN region_weights |-> derived_cell(region_weights[s], row_avg[r])]]

derived_from_weights(minutes, T, region_weights) ==
    derived_rows(region_weights,
                 [r \in DOMAIN region_weights |-> row_avg_of(minutes, T, region_weights[r])])

derived_minutes_of(minutes, tracts, regions) ==
    derived_from_weights(minutes, Len(tracts),
        [r \in DOMAIN regions |-> region_weights_of(tracts, regions[r].tract_weights)])

first_route_at_reps(first, rep_indices) ==
    [r \in DOMAIN rep_indices |->
        [s \in DOMAIN rep_indices |->
            IF rep_indices[r] = None \/ rep_indices[s] = None THEN None
            ELSE minutes_at(first, rep_indices[r], rep_indices[s])]]

\* first_route[rep_r][rep_s] of the representative tracts, None without one
derived_first_route_of(first, tracts, regions) ==
    first_route_at_reps(first,
        [r \in DOMAIN regions |->
            IF regions[r].representative_tract_id # None
            THEN tract_idx_get(tracts, regions[r].representative_tract_id)
            ELSE None])

----------------------------------------------------------------------------
(* main() of tools/build_derived.py from the loop over region_cells on *)

matrixToolVars == <<feedVars, streamVars, histVars, aggVars, graphVars, corridorVars,
                    setupVars>>

\* the loop over region_cells: a region of no area is skipped
BuildRegions ==
    /\ pc = "regions"
    /\ pc' = "dedup_station"
    /\ derived_regions' =
          LET kept == SelectSeq(region_cells, LAMBDA c : SumAreas(c.tw) > 0)
          IN [k \in DOMAIN kept |-> derived_region(kept[k])]
    /\ derived_features' = [k \in DOMAIN derived_regions' |-> feature_of(derived_regions'[k])]
    /\ named_regions' = derived_regions'
    /\ UNCHANGED <<matrixToolVars, region_cells, tracts_list, derived_minutes, derived_first_route>>

DedupStation ==
    /\ pc = "dedup_station"
    /\ pc' = "dedup_direction"
    /\ derived_regions' = disambiguate_by_station(derived_regions)
    /\ UNCHANGED <<matrixToolVars, region_cells, derived_features, named_regions, tracts_list,
                   derived_minutes, derived_first_route>>

DedupDirection ==
    /\ pc = "dedup_direction"
    /\ pc' = "dedup_ordinal"
    /\ derived_regions' = disambiguate_by_direction(derived_regions)
    /\ UNCHANGED <<matrixToolVars, region_cells, derived_features, named_regions, tracts_list,
                   derived_minutes, derived_first_route>>

DedupOrdinal ==
    /\ pc = "dedup_ordinal"
    /\ pc' = "features"
    /\ derived_regions' = disambiguate_by_ordinal(derived_regions)
    /\ UNCHANGED <<matrixToolVars, region_cells, derived_features, named_regions, tracts_list,
                   derived_minutes, derived_first_route>>

\* region_by_id keeps the last region of an id; the features take its name and aliases
UpdateFeatures ==
    /\ pc = "features"
    /\ pc' = "profile"
    /\ derived_features' =
          [k \in DOMAIN derived_features |->
              LET rid == derived_features[k].atlas_id
                  at == {j \in DOMAIN derived_regions : derived_regions[j].id = rid}
              IN IF at = {} THEN derived_features[k]
                 ELSE LET reg == derived_regions[CHOOSE j \in at : \A i \in at : i <= j]
                      IN [derived_features[k] EXCEPT !.primary_name = reg.name,
                                                     !.aliases = reg.aliases]]
    /\ UNCHANGED <<matrixToolVars, region_cells, derived_regions, named_regions, tracts_list,
                   derived_minutes, derived_first_route>>

\* the derived matrix of one profile
DeriveMatrix ==
    /\ pc = "profile"
    /\ pc' = "done"
    /\ derived_minutes' = derived_minutes_of(minutes_matrix, tracts_list, derived_regions)
    /\ derived_first_route' =
          derived_first_route_of(first_route_matrix, tracts_list, derived_regions)
    /\ UNCHANGED <<matrixToolVars, region_cells, derived_regions, derived_features,
                   named_regions, tracts_list>>

NextDerived ==
    \/ BuildRegions
    \/ DedupStation
    \/ DedupDirection
    \/ DedupOrdinal
    \/ UpdateFeatures
    \/ DeriveMatrix

Cells(id, g, station_name, tract_name, centroid, tw) ==
    [id |-> id, gazetteer |-> g, station_name |-> station_name, tract_name |-> tract_name,
     centroid |-> centroid, station_lat |-> 0, station_lon |-> 0, tw |-> tw]

Overlay(gname, area) == [gname |-> gname, area |-> area]

TractArea(tract, area) == [tract |-> tract, area |-> area]

\* the areas of the gazetteer names under the cells of a region
GazetteerOverlays ==
    {<<>>,
     <<Overlay(<<"X">>, 2)>>,
     <<Overlay(<<"x">>, 1)>>,
     <<Overlay(<<"X">>, 2), Overlay(<<"Y">>, 1)>>,
     <<Overlay(<<"X">>, 2), Overlay(<<"Y">>, 2), Overlay(<<"Z">>, 1)>>,
     <<Overlay(<<"S", "-", "T">>, 1)>>,
     <<Overlay(<<"X", " ", "·", " ", "S", " ", "·", " ", "1">>, 1)>>}

StationNames == {<<"S">>, <<"s">>, <<"T">>}

TractNames == {<<"Q">>, <<"Q", "-", "S">>}

\* the centroid of a region, the station being at (0, 0)
Centroids == {<<0, 0>>, <<1, 0>>}

RegionCells(id) ==
    {Cells(id, g, s, t, c, <<TractArea(1, 1)>>) :
        g \in GazetteerOverlays, s \in StationNames, t \in TractNames, c \in Centroids}

\* the third region: named by the gazetteer, at its station
LastRegionCells(id) ==
    {Cells(id, g, <<"S">>, <<"Q">>, <<0, 0>>, <<TractArea(1, 1)>>) :
        g \in {<<Overlay(<<"X">>, 2)>>,
               <<Overlay(<<"X", " ", "·", " ", "S">>, 1)>>,
               <<Overlay(<<"X", " ", "·", " ", "S", " ", "·", " ", "1">>, 1)>>}}

InitMatrixToolIdle ==
    /\ stops = {}
    /\ parent_to_children = EmptyDict
    /\ trip_routes = EmptyDict
    /\ trip_services = EmptyDict
    /\ calendar = [present |-> FALSE, rows |-> EmptyDict]
    /\ allowed_weekday_trips = NoneSet
    /\ allowed_weekend_trips = NoneSet
    /\ trip_state = EmptyDict
    /\ seg_lists_by_window = [w \in WindowIds |-> EmptyDict]
    /\ seg_route_counts_by_window = [w \in WindowIds |-> EmptyDict]
    /\ active_stops = {}
    /\ weights_by_window = [w \in WindowIds |-> EmptyDict]
    /\ routes_by_window = [w \in WindowIds |-> EmptyDict]
    /\ lastRow = EmptyDict
    /\ curRow = Row(None, None, None, None, None)
    /\ out_of_order = FALSE
    /\ tripRows = [t \in Trips |-> <<>>]
    /\ nrows = 0
    /\ transfer_seconds = 120
    /\ segment_weights = EmptyDict
    /\ segment_routes = EmptyDict
    /\ graph = EmptyDict
    /\ rep_stops = <<>>
    /\ origin = 0
    /\ dist = EmptyDict
    /\ first_route = EmptyDict
    /\ heap = {}
    /\ centrality_scores = <<>>
    /\ median_minutes = <<>>
    /\ penalized_scores = <<>>

\* the names specification: three regions of any gazetteer overlay, station name,
\* tract name and centroid, over the matrix of two tracts
InitNames ==
    /\ InitMatrixToolIdle
    /\ InitCorridorsIdle
    /\ InitSetupIdle
    /\ pc = "regions"
    /\ \E ids \in {<<1, 2, 3>>, <<3, 2, 1>>} :
         \E a \in RegionCells(ids[1]), b \in RegionCells(ids[2]), c \in LastRegionCells(ids[3]) :
            region_cells = <<a, b, c>>
    /\ derived_regions = <<>>
    /\ derived_features = <<>>
    /\ named_regions = <<>>
    /\ tracts_list = <<1, 2>>
    /\ minutes_matrix = <<<<0, 5>>, <<5, 0>>>>
    /\ first_route_matrix = <<<<None, 0>>, <<0, None>>>>
    /\ derived_minutes = <<>>
    /\ derived_first_route = <<>>

SpecNames == InitNames /\ [][NextDerived]_vars

\* the areas of the tracts under the cells of a region; tract 4 is no neighborhood
\* of the graph
TractAreas ==
    {<<TractArea(1, 1)>>,
     <<TractArea(2, 1), TractArea(1, 1)>>,
     <<TractArea(1, 1), TractArea(2, 3)>>,
     <<TractArea(3, 2), TractArea(1, 1), TractArea(2, 1)>>,
     <<TractArea(3, 1), TractArea(4, 2)>>,
     <<TractArea(4, 1)>>}

\* the names of the tracts; the first cell of a region lies in the first tract of
\* its areas
TractNameOf(tract) ==
    IF tract = 2 THEN <<"T", "-", "Q">>
    ELSE IF tract = 3 THEN <<"Q", "-", "S">>
    ELSE <<"Q">>

\* the minutes between two different tracts in matrix_<profile>.json
MinuteValues == {None, 2, 7}

\* the matrices of three tracts with the diagonal 0
TractMatrices ==
    {[i \in 1..3 |-> [j \in 1..3 |-> IF i = j THEN 0 ELSE f[<<i, j>>]]] :
        f \in [{e \in (1..3) \X (1..3) : e[1] # e[2]} -> MinuteValues]}

\* the derived specification: two regions without a gazetteer name, of any tract
\* areas over any matrix of three tracts
InitDerived ==
    /\ InitMatrixToolIdle
    /\ InitCorridorsIdle
    /\ InitSetupIdle
    /\ pc = "regions"
    /\ \E a, b \in TractAreas :
         region_cells = <<Cells(1, <<>>, <<"S">>, TractNameOf(a[1].tract), <<0, 0>>, a),
                          Cells(2, <<>>, <<"T">>, TractNameOf(b[1].tract), <<0, 0>>, b)>>
    /\ derived_regions = <<>>
    /\ derived_features = <<>>
    /\ named_regions = <<>>
    /\ tracts_list = <<1, 2, 3>>
    /\ minutes_matrix \in TractMatrices
    /\ first_route_matrix = [i \in 1..3 |-> [j \in 1..3 |-> None]]
    /\ derived_minutes = <<>>
    /\ derived_first_route = <<>>

SpecDerived == InitDerived /\ [][NextDerived]_vars

\* ---- compute_hub_corridors (build_matrix.py) ----
\* Ordinals are 1-based. Centroids lie on a grid of 1 km, so that distances are whole
\* kilometres and round(dkm, 2) leaves them; km_per_min is kept in thousandths.

max_minutes == 180

\* 1 / expected_speed_km_per_min
minutes_per_km == 4

top_n_cap == 200

Neighborhood(id, borough, centroid) == [id |-> id, borough |-> borough, centroid |-> centroid]

\* the centroid of a neighborhood without a list of two numbers
NoCentroid == <<>>

Abs(x) == IF x < 0 THEN -x ELSE x

\* haversine_m(...) / 1000.0 on the grid: the distance along its streets
haversine_km(a, b) == Abs(a[1] - b[1]) + Abs(a[2] - b[2])

\* two of the anchors of hubs_cfg
hubs_cfg == <<[key |-> "midtown", anchor |-> <<0, 0>>],
              [key |-> "downtown", anchor |-> <<0, 3>>]>>

WithCentroid(nbs) == {i \in DOMAIN nbs : nbs[i].centroid # NoCentroid}

\* the first ordinal of the least distance to the anchor, None without any centroid
find_nearest_centroid_index(nbs, anchor) ==
    IF WithCentroid(nbs) = {} THEN None
    ELSE CHOOSE i \in WithCentroid(nbs) : \A j \in WithCentroid(nbs) :
            \/ haversine_km(nbs[i].centroid, anchor) < haversine_km(nbs[j].centroid, anchor)
            \/ /\ haversine_km(nbs[i].centroid, anchor) = haversine_km(nbs[j].centroid, anchor)
               /\ i <= j

\* hub_indices in the order of hubs_cfg, the anchors without a nearest centroid left out
hub_indices_of(nbs) ==
    SelectSeq([k \in DOMAIN hubs_cfg |->
                  [key |-> hubs_cfg[k].key,
                   idx |-> find_nearest_centroid_index(nbs, hubs_cfg[k].anchor)]],
              LAMBDA h : h.idx # None)

ExcludedBoroughs ==
    {<<"m", "a", "n", "h", "a", "t", "t", "a", "n">>,
     <<"b", "r", "o", "n", "x">>,
     <<"s", "t", "a", "t", "e", "n", " ", "i", "s", "l", "a", "n", "d">>}

AllowedBoroughs ==
    {<<"b", "r", "o", "o", "k", "l", "y", "n">>, <<"q", "u", "e", "e", "n", "s">>}

\* the coarse outlines of the fallback: Manhattan is the row of the anchors, the
\* Bronx lies north and Staten Island south of the grid
is_manhattan_centroid(c) == c[1] = 0
is_bronx_centroid(c) == c[1] >= 4
is_staten_island_centroid(c) == c[1] <= -4

\* the borough filter that drops the three named boroughs only
borough_not_excluded(b, c) ==
    IF b # <<>>
    THEN b \notin ExcludedBoroughs
    ELSE ~(is_manhattan_centroid(c) \/ is_bronx_centroid(c) \/ is_staten_island_centroid(c))

\* the borough filter on b = str(borough or "").strip().lower() and the centroid c
borough_allowed(b, c) ==
    IF b # <<>>
    THEN b \notin ExcludedBoroughs /\ b \in AllowedBoroughs
    ELSE ~(is_manhattan_centroid(c) \/ is_bronx_centroid(c) \/ is_staten_island_centroid(c))

\* the conditions of the loop over i before mk_entry
passes_filter(nbs, i, hub_i) ==
    /\ i # hub_i
    /\ nbs[i].centroid # NoCentroid
    /\ borough_allowed(lower(strip(nbs[i].borough)), nbs[i].centroid)

\* the dict of mk_entry, without the names and first_line
entry_of(o, h, hub_key, m, dkm) ==
    [hub |-> hub_key,
     origin_id |-> o.id,
     origin_borough |-> o.borough,
     hub_id |-> h.id,
     minutes |-> m,
     distance_km |-> dkm,
     km_per_min |-> round3(Frac(dkm, m)),
     minutes_saved |-> minutes_per_km * dkm - m]

\* mk_entry as a list: empty for None. The centroids of the origin and of the hub
\* exist where it is called, so dkm is a number.
mk_entry(nbs, minutes, i, hub) ==
    IF minutes[i][hub.idx] = None \/ minutes[i][hub.idx] <= 0 \/ minutes[i][hub.idx] > max_minutes
    THEN <<>>
    ELSE <<entry_of(nbs[i], nbs[hub.idx], hub.key, minutes[i][hub.idx],
                    haversine_km(nbs[i].centroid, nbs[hub.idx].centroid))>>

\* rows after the first n passes of the loop over i
RECURSIVE corridor_rows(_, _, _, _)
corridor_rows(nbs, minutes, hub, n) ==
    IF n = 0 THEN <<>>
    ELSE corridor_rows(nbs, minutes, hub, n - 1) \o
         (IF passes_filter(nbs, n, hub.idx) THEN mk_entry(nbs, minutes, n, hub) ELSE <<>>)

\* the order of two sort keys (tuples of two numbers)
KeyLess(x, y) == x[1] < y[1] \/ (x[1] = y[1] /\ x[2] < y[2])

\* the place of the k-th element after a sort that is then reversed: equal keys
\* come out in the opposite of their order in the list
rank_reversed_after(keys, k) ==
    1 + Cardinality({j \in DOMAIN keys : KeyLess(keys[k], keys[j])})
      + Cardinality({j \in DOMAIN keys : j > k /\ keys[j] = keys[k]})

\* the place of the k-th element after list.sort(key=..., reverse=True): behind the
\* greater keys and, the sort being stable, behind the equal keys before it
rank_reverse(keys, k) ==
    1 + Cardinality({j \in DOMAIN keys : KeyLess(keys[k], keys[j])})
      + Cardinality({j \in DOMAIN keys : j < k /\ keys[j] = keys[k]})

sort_reverse(rows, keys) ==
    [p \in DOMAIN rows |-> rows[CHOOSE k \in DOMAIN rows : rank_reverse(keys, k) = p]]

Min(a, b) == IF a <= b THEN a ELSE b

\* rows[: n]
first_n(rows, n) == SubSeq(rows, 1, Min(n, Len(rows)))

by_saved(rows) ==
    sort_reverse(rows, [k \in DOMAIN rows |-> <<rows[k].minutes_saved, rows[k].distance_km>>])

by_speed(rows) ==
    sort_reverse(rows, [k \in DOMAIN rows |-> <<rows[k].km_per_min, rows[k].distance_km>>])

\* corridors[hub_key] of the rows of one hub
hub_lists(hub_key, rows, n) ==
    [hub |-> hub_key,
     top_underrated |-> first_n(by_saved(rows), Min(n, top_n_cap)),
     top_speed |-> first_n(by_speed(rows), Min(n, top_n_cap))]

\* the hubs are found
FindHubs ==
    /\ pc = "hubs"
    /\ hub_indices' = hub_indices_of(neighborhoods)
    /\ pc' = IF hub_indices_of(neighborhoods) = <<>> THEN "done" ELSE "corridors"
    /\ UNCHANGED <<neighborhoods, corridors, top_n, derivedVars, setupVars,
                   feedVars, streamVars, histVars, aggVars, graphVars>>

\* one pass of the loop over hub_indices
HubCorridors ==
    /\ pc = "corridors"
    /\ corridors' =
          Append(corridors,
                 hub_lists(hub_indices[Len(corridors) + 1].key,
                           corridor_rows(neighborhoods, minutes_matrix,
                                         hub_indices[Len(corridors) + 1], Len(neighborhoods)),
                           top_n))
    /\ pc' = IF Len(corridors) + 1 = Len(hub_indices) THEN "done" ELSE "corridors"
    /\ UNCHANGED <<neighborhoods, hub_indices, top_n, derivedVars, setupVars,
                   feedVars, streamVars, histVars, aggVars, graphVars>>

NextCorridors == FindHubs \/ HubCorridors

\* the borough properties of the neighborhoods: none, two allowed ones in other
\* letter cases, an excluded one, an unknown one and a blank one
Boroughs ==
    {<<>>,
     <<"B", "r", "o", "o", "k", "l", "y", "n">>,
     <<" ", "Q", "U", "E", "E", "N", "S">>,
     <<"M", "a", "n", "h", "a", "t", "t", "a", "n">>,
     <<"N", "a", "s", "s", "a", "u">>,
     <<" ">>}

HubBoroughs ==
    {<<"B", "r", "o", "o", "k", "l", "y", "n">>, <<"M", "a", "n", "h", "a", "t", "t", "a", "n">>}

\* the centroids by ordinal: the first two neighborhoods lie at the anchors
CentroidLists ==
    {<<<<0, 0>>, <<0, 3>>, <<1, 1>>, <<1, 2>>>>,
     <<<<0, 0>>, <<0, 3>>, <<1, 1>>, NoCentroid>>}

\* the ids by ordinal
IdLists == {<<1, 2, 3, 4>>, <<4, 3, 2, 1>>, <<1, 4, 3, 2>>}

\* the values of the parameter top_n
TopNs == {1, 2, 180}

\* the matrices of four neighborhoods: the columns of the two hubs vary
HubMatrices ==
    {[i \in 1..4 |-> [j \in 1..4 |->
        IF i = j THEN 0
        ELSE IF j = 1 THEN (IF i = 2 THEN 8 ELSE IF i = 3 THEN a ELSE b)
        ELSE IF j = 2 THEN (IF i = 1 THEN 8 ELSE IF i = 3 THEN c ELSE d)
        ELSE 10]] :
        a \in {None, 0, 7, 200}, b \in {8, 11, 200}, c \in {8, 12}, d \in {8, 12}}

InitCorridors ==
    /\ InitMatrixToolIdle
    /\ InitDerivedIdle
    /\ InitSetupIdle
    /\ pc = "hubs"
    /\ \E ids \in IdLists, cs \in CentroidLists, b1 \in HubBoroughs, b3 \in Boroughs, b4 \in Boroughs :
         neighborhoods = <<Neighborhood(ids[1], b1, cs[1]),
                           Neighborhood(ids[2], <<"B", "r", "o", "o", "k", "l", "y", "n">>, cs[2]),
                           Neighborhood(ids[3], b3, cs[3]),
                           Neighborhood(ids[4], b4, cs[4])>>
    /\ top_n \in TopNs
    /\ minutes_matrix \in HubMatrices
    /\ first_route_matrix = [i \in 1..4 |-> [j \in 1..4 |-> None]]
    /\ hub_indices = <<>>
    /\ corridors = <<>>

SpecCorridors == InitCorridors /\ [][NextCorridors]_vars

\* ---- parse_gtfs_time_to_seconds (build_matrix.py) ----
\* An Optional[str] is [none, text]; the text is a sequence of characters.

OptText(text) == [none |-> FALSE, text |-> text]
NullText == [none |-> TRUE, text |-> <<>>]

DigitValue(c) == CHOOSE v \in 0..9 : ToString(v) = c

RECURSIVE digits_value(_)
digits_value(d) ==
    IF d = <<>> THEN 0
    ELSE 10 * digits_value(SubSeq(d, 1, Len(d) - 1)) + DigitValue(d[Len(d)])

\* int(text) of a text of digits, signs, blanks and letters: <<v>>, or <<>> for a
\* ValueError. Blanks around the number and one sign before it are accepted.
int(text) ==
    LET t == strip(text)
        signed == t # <<>> /\ t[1] \in {"+", "-"}
        d == IF signed THEN Tail(t) ELSE t
    IN IF d = <<>> \/ \E k \in DOMAIN d : d[k] \notin DigitChars THEN <<>>
       ELSE IF signed /\ t[1] = "-" THEN <<-digits_value(d)>>
       ELSE <<digits_value(d)>>

\* the range test without the hours: an hour of 24 or more is refused
time_of_fields_within_day(h, m, s) ==
    IF m < 0 \/ m >= 60 \/ s < 0 \/ s >= 60 \/ h < 0 \/ h >= 24 THEN None
    ELSE h * 3600 + m * 60 + s

\* the range test and the value returned
time_of_fields(h, m, s) ==
    IF m < 0 \/ m >= 60 \/ s < 0 \/ s >= 60 \/ h < 0 THEN None
    ELSE h * 3600 + m * 60 + s

time_of_parts(parts) ==
    IF Len(parts) # 3 THEN None
    ELSE IF \E k \in 1..3 : int(parts[k]) = <<>> THEN None
    ELSE time_of_fields(int(parts[1])[1], int(parts[2])[1], int(parts[3])[1])

parse_gtfs_time_to_seconds(value) ==
    IF value.none THEN None
    ELSE IF strip(value.text) = <<>> THEN None
    ELSE time_of_parts(split(strip(value.text), ":"))

ParseTime ==
    /\ pc = "parse"
    /\ time_seconds' = parse_gtfs_time_to_seconds(time_text)
    /\ pc' = "parsed"
    /\ UNCHANGED <<time_text, mainVars, corridorVars, derivedVars,
                   feedVars, streamVars, histVars, aggVars, graphVars>>

NextParse == ParseTime

\* the fields of the time strings: well-formed ones, one digit where two are
\* expected, three digits, values out of range, a sign, a blank, a letter, nothing
TimeFields ==
    {<<>>, <<"7">>, <<"0", "7">>, <<"0", "5">>, <<"5", "9">>, <<"6", "0">>, <<"2", "5">>,
     <<"1", "2", "3">>, <<" ", "7">>, <<"+", "7">>, <<"-", "1">>, <<"x">>}

MaxTimeFields == 4

RECURSIVE join(_, _)
join(parts, sep) ==
    IF Len(parts) = 0 THEN <<>>
    ELSE IF Len(parts) = 1 THEN parts[1]
    ELSE parts[1] \o sep \o join(Tail(parts), sep)

\* every text of three fields, the texts of another number of fields made of
\* "7" and "05", and the same texts between blanks
TimeTexts ==
    LET three == {join(f, <<":">>) : f \in [1..3 -> TimeFields]}
        other == UNION {{join(f, <<":">>) : f \in [1..n -> {<<"7">>, <<"0", "5">>}]} :
                            n \in (1..MaxTimeFields) \ {3}}
        padded == {<<" ">> \o join(f, <<":">>) \o <<" ">> :
                      f \in [1..3 -> {<<"7">>, <<"0", "5">>}]}
    IN three \union other \union padded

InitParse ==
    /\ pc = "parse"
    /\ InitMatrixToolIdle
    /\ minutes_matrix = <<>>
    /\ first_route_matrix = <<>>
    /\ InitDerivedIdle
    /\ InitCorridorsIdle
    /\ time_text \in {NullText} \union {OptText(t) : t \in TimeTexts}
    /\ time_seconds = None
    /\ namelist = {}
    /\ features = <<>>
    /\ neighborhood_list = <<>>
    /\ written = {}
    /\ exit_code = None
    /\ derived_tracts = <<>>

SpecParse == InitParse /\ [][NextParse]_vars

\* ---- main() of build_matrix.py and the tract list of build_derived.py ----
\* A feature is [code, name, geometry, atlas_id]: the first recognized id property
\* (<<>> when there is none), the name property, whether the geometry has points,
\* and the stamped atlas_id (<<>> before the stamp). Ordinals are idx + 1.

Feature(code, name, geometry) ==
    [code |-> code, name |-> name, geometry |-> geometry, atlas_id |-> <<>>]

AlnumChars == {LowerChars[k] : k \in DOMAIN LowerChars} \union DigitChars

RECURSIVE slug_chars(_, _)
slug_chars(value, out) ==
    IF value = <<>> THEN out
    ELSE IF value[1] \in AlnumChars THEN slug_chars(Tail(value), Append(out, value[1]))
    ELSE IF value[1] \in {" ", "-", "_", "/", "."} /\ out # <<>> /\ out[Len(out)] # "-"
         THEN slug_chars(Tail(value), Append(out, "-"))
    ELSE slug_chars(Tail(value), out)

\* str.strip("-")
RECURSIVE strip_dashes(_)
strip_dashes(s) ==
    IF s # <<>> /\ s[1] = "-" THEN strip_dashes(Tail(s))
    ELSE IF s # <<>> /\ s[Len(s)] = "-" THEN strip_dashes(SubSeq(s, 1, Len(s) - 1))
    ELSE s

slugify(value) ==
    IF strip_dashes(slug_chars(lower(strip(value)), <<>>)) = <<>>
    THEN <<"n", "e", "i", "g", "h", "b", "o", "r", "h", "o", "o", "d">>
    ELSE strip_dashes(slug_chars(lower(strip(value)), <<>>))

\* pick_neighborhood_id(props, idx) with k = idx + 1
pick_neighborhood_id(props, k) ==
    IF props.code # <<>> THEN props.code
    ELSE slugify(IF props.name # <<>> THEN props.name
                 ELSE <<"N", "e", "i", "g", "h", "b", "o", "r", "h", "o", "o", "d", " ">>
                        \o str(k))
           \o <<"-">> \o str(k)

\* the id after the test against seen_ids
unique_id(seen_ids, nid, k) == IF nid \in seen_ids THEN nid \o <<"-">> \o str(k) ELSE nid

\* stop_list, as the set of its stop ids
stop_list_of(active, all_stops) == IF active # {} THEN active \intersect all_stops ELSE all_stops

\* the stop nearest to a centroid, None for an empty stop_list; the centroids of
\* the model lie where a stop of smaller id is nearer
nearest_stop(stop_list) ==
    IF stop_list = {} THEN None ELSE CHOOSE x \in stop_list : \A y \in stop_list : x <= y

\* the body of the loop with the stamp made before the geometry test
feature_step_stamps_all(L, k, nid, stop_list) ==
    [seen_ids |-> L.seen_ids \union {nid},
     neighborhoods |->
        IF L.features[k].geometry
        THEN Append(L.neighborhoods,
                    [id |-> nid, stop_id |-> nearest_stop(stop_list), feature |-> k])
        ELSE L.neighborhoods,
     features |-> [L.features EXCEPT ![k].atlas_id = nid]]

\* the body of the loop over features, for feature k with id nid
feature_step(L, k, nid, stop_list) ==
    IF ~L.features[k].geometry THEN [L EXCEPT !.seen_ids = @ \union {nid}]
    ELSE [seen_ids |-> L.seen_ids \union {nid},
          neighborhoods |->
             Append(L.neighborhoods,
                    [id |-> nid, stop_id |-> nearest_stop(stop_list), feature |-> k]),
          features |-> [L.features EXCEPT ![k].atlas_id = nid]]

\* the loop over features from feature k on
RECURSIVE load_neighborhoods(_, _, _)
load_neighborhoods(L, k, stop_list) ==
    IF k > Len(L.features) THEN L
    ELSE load_neighborhoods(
             feature_step(L, k,
                          unique_id(L.seen_ids, pick_neighborhood_id(L.features[k], k), k),
                          stop_list),
             k + 1, stop_list)

\* the test of rep_stops left out
rep_stops_unchecked(rows) == TRUE

\* not any(s is None for s in rep_stops)
rep_stops_matched(rows) == \A k \in DOMAIN rows : rows[k].stop_id # None

RequiredFiles == {"stops.txt", "trips.txt", "stop_times.txt"}

GraphFile(wid) == <<"graph", wid>>
MatrixFile(wid) == <<"matrix", wid>>
NeighborhoodsFile == <<"neighborhoods.geojson">>
TeleportFile == <<"teleport_corridors.json">>

\* the stops and the active stops that the loads and the stream leave
StopTables ==
    {[stops |-> {}, active |-> {}], [stops |-> {1, 2}, active |-> {}],
     [stops |-> {1, 2}, active |-> {2}], [stops |-> {1}, active |-> {2}]}

\* the test of the zip and, for a complete zip, the loads and the stream
CheckFeed ==
    /\ pc = "main"
    /\ IF \E required \in RequiredFiles : required \notin namelist
       THEN /\ exit_code' = 2
            /\ pc' = "exit"
            /\ UNCHANGED <<stops, active_stops>>
       ELSE /\ \E t \in StopTables : stops' = t.stops /\ active_stops' = t.active
            /\ pc' = "neighborhoods"
            /\ UNCHANGED exit_code
    /\ UNCHANGED <<namelist, features, neighborhood_list, written, derived_tracts,
                   parseVars, corridorVars, derivedVars, histVars, aggVars, graphVars,
                   parent_to_children, trip_routes, trip_services, calendar,
                   allowed_weekday_trips, allowed_weekend_trips,
                   trip_state, seg_lists_by_window, seg_route_counts_by_window>>

\* the end of the loop: neighborhoods.geojson is written, then rep_stops is tested
StoreNeighborhoods(L) ==
    /\ features' = L.features
    /\ neighborhood_list' = L.neighborhoods
    /\ written' = written \union {NeighborhoodsFile}
    /\ IF rep_stops_matched(L.neighborhoods)
       THEN pc' = "windows" /\ UNCHANGED exit_code
       ELSE pc' = "exit" /\ exit_code' = 2

LoadNeighborhoods ==
    /\ pc = "neighborhoods"
    /\ IF features = <<>>
       THEN /\ exit_code' = 2
            /\ pc' = "exit"
            /\ UNCHANGED <<features, neighborhood_list, written>>
       ELSE StoreNeighborhoods(
                load_neighborhoods([seen_ids |-> {}, neighborhoods |-> <<>>,
                                    features |-> features],
                                   1, stop_list_of(active_stops, stops)))
    /\ UNCHANGED <<namelist, derived_tracts, parseVars, corridorVars, derivedVars,
                   feedVars, streamVars, histVars, aggVars, graphVars>>

\* one pass of the loop over windows: graph_<wid>.json and matrix_<wid>.json
WriteWindow ==
    /\ pc = "windows"
    /\ \E i \in DOMAIN windows :
          /\ MatrixFile(windows[i].wid) \notin written
          /\ \A j \in 1..(i - 1) : MatrixFile(windows[j].wid) \in written
          /\ written' = written \union {GraphFile(windows[i].wid), MatrixFile(windows[i].wid)}
          /\ pc' = IF i = Len(windows) THEN "teleport" ELSE "windows"
    /\ UNCHANGED <<namelist, features, neighborhood_list, exit_code, derived_tracts,
                   parseVars, corridorVars, derivedVars,
                   feedVars, streamVars, histVars, aggVars, graphVars>>

WriteTeleport ==
    /\ pc = "teleport"
    /\ written' = written \union {TeleportFile}
    /\ exit_code' = 0
    /\ pc' = "exit"
    /\ UNCHANGED <<namelist, features, neighborhood_list, derived_tracts,
                   parseVars, corridorVars, derivedVars,
                   feedVars, streamVars, histVars, aggVars, graphVars>>

\* build_derived: the tract of feature k, for the features with bounds
RECURSIVE tracts_of(_, _)
tracts_of(feats, k) ==
    IF k > Len(feats) THEN <<>>
    ELSE (IF feats[k].geometry
          THEN <<[id |-> pick_neighborhood_id(feats[k], k), feature |-> k]>>
          ELSE <<>>) \o tracts_of(feats, k + 1)

\* build_derived on the same neighborhoods file, after a run of main that wrote
\* its outputs
BuildTracts ==
    /\ pc = "exit"
    /\ exit_code = 0
    /\ derived_tracts' = tracts_of(features, 1)
    /\ pc' = "tracts"
    /\ UNCHANGED <<namelist, features, neighborhood_list, written, exit_code,
                   parseVars, corridorVars, derivedVars,
                   feedVars, streamVars, histVars, aggVars, graphVars>>

NextMain == CheckFeed \/ LoadNeighborhoods \/ WriteWindow \/ WriteTeleport \/ BuildTracts

MaxFeatures == 3

\* a recognized id, a recognized id that looks like a suffixed one, a name only,
\* nothing; with and without a usable geometry
FeatureProps ==
    {Feature(c, <<"A", " ", "B">>, g) : c \in {<<"a">>, <<"a", "-", "3">>, <<>>}, g \in BOOLEAN}
      \union {Feature(<<>>, <<>>, g) : g \in BOOLEAN}

FeatureLists == UNION {[1..n -> FeatureProps] : n \in 0..MaxFeatures}

Namelists == {RequiredFiles} \union {RequiredFiles \ {f} : f \in RequiredFiles}

InitMain ==
    /\ pc = "main"
    /\ InitMatrixToolIdle
    /\ minutes_matrix = <<>>
    /\ first_route_matrix = <<>>
    /\ InitDerivedIdle
    /\ InitCorridorsIdle
    /\ time_text = NullText
    /\ time_seconds = None
    /\ namelist \in Namelists
    /\ features \in FeatureLists
    /\ neighborhood_list = <<>>
    /\ written = {}
    /\ exit_code = None
    /\ derived_tracts = <<>>

SpecMain == InitMain /\ [][NextMain]_vars

----------------------------------------------------------------------------
(* The stream in trip order: every row of trip 1, then every row of trip 2 *)

RECURSIVE process_rows(_, _)
process_rows(S, rows) ==
    IF rows = <<>> THEN S ELSE process_rows(process_row(S, Head(rows)), Tail(rows))

InOrderStream == process_rows(EmptyStream, tripRows[1] \o tripRows[2])

SamplesOf(lists, w, e) == IF e \in DOMAIN lists[w] THEN lists[w][e] ELSE <<>>

Edges == StopIds \X StopIds

SampledWindows == {w \in WindowIds : seg_lists_by_window'[w] # seg_lists_by_window[w]}

----------------------------------------------------------------------------
(* C1: any interleaving of the per-trip row sequences yields the same       *)
(* per-window segment_weights (edge keys and median seconds) as the stream  *)
(* in trip order.                                                           *)
C1_InterleavingKeepsWeights ==
    pc = "aggregated" =>
        weights_by_window = segment_weights_of(InOrderStream.seg_lists_by_window)

\* an edge whose samples come from both trips, stored in the other order than in trip order
C1_Witness ==
    /\ pc = "aggregated"
    /\ \E w \in WindowIds : \E e \in DOMAIN seg_lists_by_window[w] :
        /\ Len(seg_lists_by_window[w][e]) = 2
        /\ seg_lists_by_window[w][e] # InOrderStream.seg_lists_by_window[w][e]

(* C2: a step records a sample for edge (u,v) in window W only from the     *)
(* current row and the previous row of the same trip in the stream, with    *)
(* stops u then v, seq(next) = seq(prev)+1, 0 < arr(next) - dep(prev) <     *)
(* 3600 and W.start <= dep(prev) < W.end; the sample is arr(next)-dep(prev).*)
C2_SampleOnlyFromAdjacentRows ==
    [][\A w \in WindowIds : \A e \in Edges :
        SamplesOf(seg_lists_by_window', w, e) # SamplesOf(seg_lists_by_window, w, e) =>
            /\ curRow'.trip_id \in DOMAIN lastRow
            /\ LET prev == lastRow[curRow'.trip_id]
                   next == curRow'
               IN /\ prev.stop_id = e[1]
                  /\ next.stop_id = e[2]
                  /\ prev.seq # None /\ next.seq # None
                  /\ next.seq = prev.seq + 1
                  /\ prev.dep # None /\ next.arr # None
                  /\ 0 < next.arr - prev.dep
                  /\ next.arr - prev.dep < 3600
                  /\ WindowOf(w).start <= prev.dep
                  /\ prev.dep < WindowOf(w).end
                  /\ SamplesOf(seg_lists_by_window', w, e) =
                        Append(SamplesOf(seg_lists_by_window, w, e), next.arr - prev.dep)
    ]_vars

\* a sample was recorded by the last row while the other trip has rows in the stream too
C2_Witness ==
    /\ DOMAIN lastRow = Trips
    /\ curRow.trip_id \in Trips
    /\ curRow.arr # None
    /\ \E w \in WindowIds : \E e \in DOMAIN seg_lists_by_window[w] :
        /\ e[2] = curRow.stop_id
        /\ nrows = 3

(* C3: in every window every entry of segment_weights is a w with           *)
(* 0 < w < 3600, for an odd and for an even number of samples.              *)
C3_WeightsInRange ==
    \A w \in WindowIds : \A e \in DOMAIN weights_by_window[w] :
        0 < weights_by_window[w][e] /\ weights_by_window[w][e] < 3600

\* an aggregated edge with an even number of samples, the smallest and the largest possible
C3_Witness ==
    /\ pc = "aggregated"
    /\ \E w \in WindowIds : \E e \in DOMAIN weights_by_window[w] :
        /\ Len(seg_lists_by_window[w][e]) = 2
        /\ sorted(seg_lists_by_window[w][e]) = <<1, 3599>>

(* C9: any interleaving of the per-trip row sequences yields the same       *)
(* per-window segment_routes as the stream in trip order, ties included.    *)
C9_InterleavingKeepsRoutes ==
    pc = "aggregated" =>
        routes_by_window = segment_routes_of(InOrderStream.seg_route_counts_by_window)

(* C10: a trip's row adds a sample to weekday_am or weekday_pm only if the  *)
(* trip is in the weekday allowed-set, and to weekend only if it is in the  *)
(* weekend allowed-set: no calendar, or an empty service-id set, or the     *)
(* trip's service-id in the set.                                            *)
InAllowedSet(service_ids, trip_id) ==
    \/ ~calendar.present
    \/ service_ids.ids = {}
    \/ (trip_id \in DOMAIN trip_services /\ trip_services[trip_id] \in service_ids.ids)

C10_SamplesOnlyFromAllowedTrips ==
    [][\A w \in SampledWindows :
        /\ IsWeekdayWindow(w) =>
              InAllowedSet(detect_weekday_service_ids(calendar), curRow'.trip_id)
        /\ w = "weekend" =>
              InAllowedSet(detect_weekend_service_ids(calendar), curRow'.trip_id)
    ]_vars

\* a weekday-only trip departing at 16:00 is sampled in weekday_pm and not in weekend
C10_Witness ==
    /\ calendar.present
    /\ ~allowed_weekday_trips.none
    /\ ~allowed_weekend_trips.none
    /\ curRow.trip_id \in allowed_weekday_trips.ids
    /\ curRow.trip_id \notin allowed_weekend_trips.ids
    /\ seg_lists_by_window["weekday_pm"] # EmptyDict
    /\ seg_lists_by_window["weekend"] = EmptyDict

----------------------------------------------------------------------------
(* Paths of the stop graph, by enumeration *)

EdgesTo(g, u, v) == {k \in DOMAIN g[u] : g[u][k].v = v}

\* the sequences of distinct stops from s along edges of g
SimplePaths(g, s) ==
    {p \in UNION {[1..n -> DOMAIN g] : n \in 1..Cardinality(DOMAIN g)} :
        /\ p[1] = s
        /\ \A a, b \in DOMAIN p : a # b => p[a] # p[b]
        /\ \A a \in DOMAIN p : a < Len(p) => EdgesTo(g, p[a], p[a + 1]) # {}}

MinOf(S) == CHOOSE x \in S : \A y \in S : x <= y

RECURSIVE PathWeight(_, _, _)
PathWeight(g, p, a) ==
    IF a >= Len(p) THEN 0
    ELSE MinOf({g[p[a]][k].w : k \in EdgesTo(g, p[a], p[a + 1])}) + PathWeight(g, p, a + 1)

ReachableFrom(g, s) == {p[Len(p)] : p \in SimplePaths(g, s)}

ShortestDist(g, s, v) ==
    MinOf({PathWeight(g, p, 1) : p \in {q \in SimplePaths(g, s) : q[Len(q)] = v}})

Returned == pc = "solve" /\ heap = {}

Start == rep_stops[origin]

Siblings(u, v) ==
    /\ u # v
    /\ \E p \in DOMAIN parent_to_children :
        \E i, j \in DOMAIN parent_to_children[p] :
            parent_to_children[p][i] = u /\ parent_to_children[p][j] = v

\* the edge at position k of graph[u] was added by the transfer loop of build_graph
IsTransferEdge(u, k) == k > Len(transit_edges(stops, segment_weights, segment_routes, u))

\* the edge at position k of graph[s] starts a path of weight dist[v] from s to v
StartsShortestPath(s, k, v) ==
    /\ v \in ReachableFrom(graph, graph[s][k].v)
    /\ graph[s][k].w + ShortestDist(graph, graph[s][k].v, v) = dist[v]

(* C4: minutes[i][i] = 0 for every neighborhood ordinal i of the matrix.    *)
C4_DiagonalZero ==
    \A i \in DOMAIN minutes_matrix : minutes_matrix[i][i] = 0

\* the whole matrix is computed and has a positive entry off the diagonal
C4_Witness ==
    /\ pc = "done"
    /\ Len(minutes_matrix) = Len(rep_stops)
    /\ \E i, j \in DOMAIN minutes_matrix : i # j /\ minutes_matrix[i][j] > 0

(* C5: minutes[i][j] is null iff the representative stop of j is not        *)
(* reachable by a directed path from the representative stop of i in the    *)
(* window's graph (transit and transfer edges).                             *)
C5_NullIffUnreachable ==
    \A i \in DOMAIN minutes_matrix : \A j \in DOMAIN rep_stops :
        minutes_matrix[i][j] = None <=> rep_stops[j] \notin ReachableFrom(graph, rep_stops[i])

\* a complete matrix with a row that has a null entry and an entry reached by a transfer
C5_Witness ==
    /\ pc = "done"
    /\ transfer_seconds = 120
    /\ segment_weights # EmptyDict
    /\ \E i, j, k \in DOMAIN rep_stops :
        /\ minutes_matrix[i][j] = None
        /\ Siblings(rep_stops[i], rep_stops[k])
        /\ minutes_matrix[i][k] = 2

(* C6: dijkstra and dijkstra_first_route return a distance map whose keys   *)
(* are exactly the nodes reachable from start, each value the least total   *)
(* weight of a directed path from start to the node (0 for start).          *)
C6_DijkstraShortest ==
    Returned =>
        /\ DOMAIN dist = ReachableFrom(graph, Start)
        /\ \A v \in DOMAIN dist : dist[v] = ShortestDist(graph, Start, v)
        /\ dist[Start] = 0
        /\ dijkstra(graph, Start) = [v \in ReachableFrom(graph, Start) |->
                                        ShortestDist(graph, Start, v)]

\* a node whose direct edge from the start is longer than a path over another node
C6_Witness ==
    /\ Returned
    /\ \E v \in DOMAIN dist : \E k \in EdgesTo(graph, Start, v) :
        /\ \A m \in EdgesTo(graph, Start, v) : dist[v] < graph[Start][m].w

(* C7 as stated: first_route[v] of a reachable v other than the start is    *)
(* the route of the first edge of a path of weight dist[v], and it is null  *)
(* exactly when that first edge is a transfer edge; first_route[start] is   *)
(* null and the diagonal of the first_route matrix is null.                 *)
C7_NullExactlyOnTransferFirst ==
    /\ Returned =>
        /\ first_route[Start] = None
        /\ \A v \in (DOMAIN dist) \ {Start} :
            \E k \in DOMAIN graph[Start] :
                /\ StartsShortestPath(Start, k, v)
                /\ graph[Start][k].rid = first_route[v]
                /\ first_route[v] = None <=> IsTransferEdge(Start, k)
    /\ \A i \in DOMAIN first_route_matrix : first_route_matrix[i][i] = None

(* C7 as amended: first_route[v] of a reachable v other than the start is   *)
(* the route of the first edge of a path of weight dist[v]; it is null when *)
(* that edge is a transfer edge, and when it is a transit edge whose        *)
(* segment has no dominant route; first_route[start] is null and the        *)
(* diagonal of the first_route matrix is null.                              *)
C7_FirstRouteOfShortestPath ==
    /\ Returned =>
        /\ first_route[Start] = None
        /\ DOMAIN first_route = DOMAIN dist
        /\ \A v \in (DOMAIN dist) \ {Start} :
            \E k \in DOMAIN graph[Start] :
                /\ StartsShortestPath(Start, k, v)
                /\ graph[Start][k].rid = first_route[v]
                /\ IsTransferEdge(Start, k) => first_route[v] = None
                /\ (~IsTransferEdge(Start, k) /\ first_route[v] = None) =>
                      DictGet(segment_routes, <<Start, graph[Start][k].v>>) = None
    /\ \A i \in DOMAIN first_route_matrix : first_route_matrix[i][i] = None

\* a node reached over two edges whose routes differ, and a node reached transfer-first
C7_Witness ==
    /\ Returned
    /\ \E v, u \in (DOMAIN dist) \ {Start} :
        /\ EdgesTo(graph, Start, v) = {}
        /\ first_route[v] \in Routes
        /\ \E k \in EdgesTo(graph, u, v) :
              graph[u][k].rid \in Routes /\ graph[u][k].rid # first_route[v]
    /\ \E i \in DOMAIN first_route_matrix : \E j \in DOMAIN rep_stops :
        i # j /\ first_route_matrix[i][j] = None /\ minutes_matrix[i][j] # None

(* C8 as stated: for any transfer_seconds and any segments, every ordered   *)
(* pair of distinct stops (u,v) sharing a parent has the edge               *)
(* (v, transfer_seconds, no route) in u's list, and no route-less edge      *)
(* joins stops that do not share a parent.                                  *)
C8_TransferEdgesForAnySeconds ==
    pc # "build" =>
        /\ \A u, v \in stops : Siblings(u, v) =>
              \E k \in DOMAIN graph[u] : graph[u][k] = Edge(v, transfer_seconds, None)
        /\ \A u \in stops : \A k \in DOMAIN graph[u] :
              graph[u][k].rid = None => Siblings(u, graph[u][k].v)

(* C8 as amended: for a positive transfer_seconds and any segments, every   *)
(* ordered pair of distinct stops (u,v) sharing a parent has the edge       *)
(* (v, transfer_seconds, no route) in u's list; with transfer_seconds <= 0  *)
(* no transfer edge is added; a route-less edge between stops that do not   *)
(* share a parent is the transit edge of a segment with no dominant route.  *)
C8_TransferEdgesForPositiveSeconds ==
    pc # "build" =>
        /\ transfer_seconds > 0 =>
              \A u, v \in stops : Siblings(u, v) =>
                  \E k \in DOMAIN graph[u] :
                      IsTransferEdge(u, k) /\ graph[u][k] = Edge(v, transfer_seconds, None)
        /\ \A u \in stops : \A k \in DOMAIN graph[u] :
              /\ IsTransferEdge(u, k) =>
                    /\ transfer_seconds > 0
                    /\ Siblings(u, graph[u][k].v)
                    /\ graph[u][k] = Edge(graph[u][k].v, transfer_seconds, None)
              /\ ~IsTransferEdge(u, k) =>
                    /\ <<u, graph[u][k].v>> \in DOMAIN segment_weights
                    /\ graph[u][k].w = segment_weights[<<u, graph[u][k].v>>]
                    /\ graph[u][k].rid = DictGet(segment_routes, <<u, graph[u][k].v>>)

\* a complex of three stops that no segment touches, with its six transfer edges
C8_Witness ==
    /\ pc # "build"
    /\ transfer_seconds > 0
    /\ segment_weights = EmptyDict
    /\ \A u, v \in stops : u # v => Siblings(u, v)
    /\ \A u \in stops : Len(graph[u]) = 2

----------------------------------------------------------------------------
(* The centrality scores of the window *)

NoOutgoingEdge(i) == graph[rep_stops[i]] = <<>>

\* C11: with a positive transfer_seconds, the transfer-penalized score of every
\* neighborhood is less than or equal to its harmonic score.
C11_PenaltyNeverRaisesScore ==
    (pc = "done" /\ transfer_seconds > 0) =>
        \A i \in DOMAIN rep_stops : FracLeq(penalized_scores[i], centrality_scores[i])

\* C12 as stated: the row of a neighborhood whose representative stop has no outgoing
\* edge is null in every column but its own, 0 on the diagonal, and its score is 0.
C12_IsolatedRowNullOffDiagonal ==
    pc = "done" =>
        \A i \in DOMAIN rep_stops :
            NoOutgoingEdge(i) =>
                /\ \A j \in DOMAIN rep_stops :
                      minutes_matrix[i][j] = (IF j = i THEN 0 ELSE None)
                /\ FracEq(centrality_scores[i], Frac(0, 1))

\* C12: the row of a neighborhood whose representative stop has no outgoing edge is 0
\* in the columns of the neighborhoods that share its representative stop (its own
\* column included) and null in every other column, and its harmonic score is 0.
C12_IsolatedRowNullOffStop ==
    pc = "done" =>
        \A i \in DOMAIN rep_stops :
            NoOutgoingEdge(i) =>
                /\ \A j \in DOMAIN rep_stops :
                      minutes_matrix[i][j] = (IF rep_stops[j] = rep_stops[i] THEN 0 ELSE None)
                /\ FracEq(centrality_scores[i], Frac(0, 1))

\* two neighborhoods share the isolated stop 3 and the third has a reachable neighbor
C12_Witness ==
    /\ pc = "done"
    /\ rep_stops = <<3, 1, 3>>
    /\ NoOutgoingEdge(1)
    /\ minutes_matrix[1] = <<0, None, 0>>
    /\ ~FracEq(centrality_scores[2], Frac(0, 1))

----------------------------------------------------------------------------
(* The names of the derived regions *)

Deduplicated == pc \in {"features", "profile", "done"}

RegionIds == DOMAIN derived_regions

\* the region had the primary name of another region, up to case and outer spaces
SharedPrimary(i) ==
    \E j \in RegionIds \ {i} :
        normalize_name_key(named_regions[j].name) = normalize_name_key(named_regions[i].name)

\* the region had exactly the primary name of another region
SamePrimary(i) == \E j \in RegionIds \ {i} : named_regions[j].name = named_regions[i].name

StationSuffixed(i) ==
    named_regions[i].name \o <<" ", "·", " ">> \o named_regions[i].anchor_station

\* the name of a region after the first pass
AfterStationPass(j) == IF SharedPrimary(j) THEN StationSuffixed(j) ELSE named_regions[j].name

Occurrences(seq, x) == Cardinality({k \in DOMAIN seq : seq[k] = x})

\* C13: after the three de-duplication passes the names of the derived regions are
\* pairwise distinct.
C13_FinalNamesDistinct ==
    Deduplicated =>
        \A i, j \in RegionIds : i # j => derived_regions[i].name # derived_regions[j].name

IsPlainTop(i, k) ==
    LET g == region_cells[i].gazetteer
    IN /\ k \in DOMAIN g
       /\ \A j \in DOMAIN g : g[j].area < g[k].area \/ (g[j].area = g[k].area /\ j >= k)
       /\ 2 * g[k].area >= SumAreas(g)
       /\ Len(split_compound_name(g[k].gname)) <= 1

\* thousandths c is a nearest value of the fraction n / d
NearestThousandth(c, n, d) ==
    LET diff == 1000 * n - c * d
    IN 2 * (IF diff < 0 THEN -diff ELSE diff) <= d

\* the name of region i, up to case and outer spaces, begins with the primary name
\* of region j and a separator: a pass can give j the name of i
ExtendsPrimary(i, j) ==
    StartsWith(normalize_name_key(named_regions[i].name),
               lstrip(lower(named_regions[j].name)) \o <<" ", "·", " ">>)

\* C15 as stated: such a region is emitted with primary_name N and name_confidence
\* equal to top_frac.
C15_EmittedWithTopName ==
    pc = "done" =>
        \A i \in DOMAIN region_cells : \A k \in DOMAIN region_cells[i].gazetteer :
            IsPlainTop(i, k) =>
                LET g == region_cells[i].gazetteer
                IN /\ derived_features[i].primary_name = g[k].gname
                   /\ derived_features[i].name_confidence * SumAreas(g) = 1000 * g[k].area

\* C15: such a region is named N by the namer, with name_confidence top_frac rounded
\* to three decimals (>= 0.5); it is emitted with the de-duplicated name, which is N
\* when no other region has a primary name equal to N up to case and outer spaces
\* or a primary name of which N is an extension by " · ", starts with N in the
\* second case and with "N · <anchor station>" in the first.
C15_NamedWithTopName ==
    pc = "done" =>
        \A i \in DOMAIN region_cells : \A k \in DOMAIN region_cells[i].gazetteer :
            IsPlainTop(i, k) =>
                LET g == region_cells[i].gazetteer
                    c == derived_features[i].name_confidence
                    emitted == derived_features[i].primary_name
                IN /\ named_regions[i].name = g[k].gname
                   /\ NearestThousandth(c, g[k].area, SumAreas(g))
                   /\ c >= 500
                   /\ emitted = derived_regions[i].name
                   /\ IF SharedPrimary(i)
                      THEN StartsWith(emitted, StationSuffixed(i))
                      ELSE /\ StartsWith(emitted, g[k].gname)
                           /\ (\A j \in RegionIds \ {i} : ~ExtendsPrimary(i, j)) =>
                                 emitted = g[k].gname

\* X covers two thirds of the overlay of region 1 and names region 3 too; the top
\* name of region 2 names no other region
C15_Witness ==
    /\ pc = "done"
    /\ IsPlainTop(1, 1)
    /\ Len(region_cells[1].gazetteer) = 2
    /\ derived_features[1].name_confidence = 667
    /\ derived_features[1].primary_name = <<"X", " ", "·", " ", "T">>
    /\ IsPlainTop(2, 1)
    /\ ~SharedPrimary(2)
    /\ derived_features[2].primary_name = region_cells[2].gazetteer[1].gname

\* ---- tract weights and the derived matrix (SpecDerived) ----

\* the sum of the values of a function over a finite set
RECURSIVE SumFrac(_)
SumFrac(f) ==
    IF DOMAIN f = {} THEN Frac(0, 1)
    ELSE LET x == CHOOSE y \in DOMAIN f : TRUE
         IN FracAdd(f[x], SumFrac([y \in DOMAIN f \ {x} |-> f[y]]))

TractWeights(r) == derived_regions[r].tract_weights

\* C16: for every derived region the values of tract_weights are non-negative and
\* sum to 1 when the map is non-empty (0 when empty), and representative_tract_id
\* is a tract with the maximum weight of the map
C16_TractWeightsNormalized ==
    \A r \in DOMAIN derived_regions :
        /\ \A k \in DOMAIN TractWeights(r) :
              TractWeights(r)[k].w.n >= 0 /\ TractWeights(r)[k].w.d > 0
        /\ FracEq(SumFrac([k \in DOMAIN TractWeights(r) |-> TractWeights(r)[k].w]),
                  Frac(IF TractWeights(r) = <<>> THEN 0 ELSE 1, 1))
        /\ TractWeights(r) # <<>> =>
              \E k \in DOMAIN TractWeights(r) :
                  /\ TractWeights(r)[k].tract = derived_regions[r].representative_tract_id
                  /\ \A j \in DOMAIN TractWeights(r) :
                        FracLeq(TractWeights(r)[j].w, TractWeights(r)[k].w)

\* a region of two tracts whose heaviest tract is not the first of the map
C16_Witness ==
    \E r \in DOMAIN derived_regions :
        /\ Len(TractWeights(r)) = 2
        /\ TractWeights(r)[2].tract = derived_regions[r].representative_tract_id
        /\ FracEq(TractWeights(r)[1].w, Frac(1, 4))
        /\ FracEq(TractWeights(r)[2].w, Frac(3, 4))

\* the entries of tract_weights of region r whose tract is a neighborhood of the graph
IndexedTracts(r) ==
    {k \in DOMAIN TractWeights(r) : TractWeights(r)[k].tract \in SetOf(tracts_list)}

\* the ordinal in the matrix of the k-th tract of region r
TractOrdinal(r, k) ==
    CHOOSE i \in DOMAIN tracts_list : tracts_list[i] = TractWeights(r)[k].tract

\* the tracts i of region r with a defined minutes[i][j]
DefinedRows(r, j) ==
    {k \in IndexedTracts(r) : minutes_matrix[TractOrdinal(r, k)][j] # None}

\* row_avg[r][j]: the w_r-weighted mean of minutes[i][j] over the tracts i of r
\* with a defined value
RowAvg(r, j) ==
    FracDiv(SumFrac([k \in DefinedRows(r, j) |->
                        FracMul(TractWeights(r)[k].w,
                                Frac(minutes_matrix[TractOrdinal(r, k)][j], 1))]),
            SumFrac([k \in DefinedRows(r, j) |-> TractWeights(r)[k].w]))

\* the tracts j of region s with a defined row_avg[r][j]
DefinedCols(r, s) ==
    {k \in IndexedTracts(s) : DefinedRows(r, TractOrdinal(s, k)) # {}}

\* the w_s-weighted mean of row_avg[r][j] over the tracts j of s with a defined row_avg
TwoStageMean(r, s) ==
    FracDiv(SumFrac([k \in DefinedCols(r, s) |->
                        FracMul(TractWeights(s)[k].w, RowAvg(r, TractOrdinal(s, k)))]),
            SumFrac([k \in DefinedCols(r, s) |-> TractWeights(s)[k].w]))

\* no pair (i in r, j in s) has a defined minutes[i][j]
NoDefinedPair(r, s) ==
    \A i \in IndexedTracts(r), j \in IndexedTracts(s) :
        minutes_matrix[TractOrdinal(r, i)][TractOrdinal(s, j)] = None

\* v is an integer nearest to the fraction f
IsRounded(f, v) ==
    2 * (f.n - v * f.d) <= f.d /\ 2 * (v * f.d - f.n) <= f.d

\* C17: minutes'[r][s] is the rounded two-stage weighted average of minutes over the
\* tracts of r and s, and is null exactly when no pair (i in r, j in s) has a
\* defined minutes[i][j]
C17_TwoStageWeightedAverage ==
    pc = "done" =>
        \A r, s \in DOMAIN derived_regions :
            /\ (derived_minutes[r][s] = None) <=> NoDefinedPair(r, s)
            /\ ~NoDefinedPair(r, s) => IsRounded(TwoStageMean(r, s), derived_minutes[r][s])

\* a region of two tracts with an undefined value skipped in its mean towards
\* another region, which has no defined value back
C17_Witness ==
    /\ pc = "done"
    /\ \E r, s \in DOMAIN derived_regions :
          /\ derived_minutes[r][s] # None
          /\ derived_minutes[r][s] > 2
          /\ \E j \in DefinedCols(r, s) :
                DefinedRows(r, TractOrdinal(s, j)) \notin {{}, IndexedTracts(r)}
          /\ IndexedTracts(s) # {}
          /\ derived_minutes[s][r] = None

\* C18 (as stated): the diagonal of the derived matrix is 0 whatever tracts and
\* weights make up the region
C18_DerivedDiagonalZero ==
    pc = "done" => \A r \in DOMAIN derived_regions : derived_minutes[r][r] = 0

\* what holds of the diagonal instead: 0 for a region with exactly one tract of the
\* graph, null for a region with none
DiagonalOfSingleTractRegion ==
    pc = "done" =>
        \A r \in DOMAIN derived_regions :
            /\ Cardinality(IndexedTracts(r)) = 1 => derived_minutes[r][r] = 0
            /\ IndexedTracts(r) = {} => derived_minutes[r][r] = None

\* ---- hub corridors (SpecCorridors) ----

\* the ordinal of the neighborhood of an id
OrdinalOf(id) == CHOOSE i \in DOMAIN neighborhoods : neighborhoods[i].id = id

\* the ordinal of the hub of the k-th element of corridors
HubOrdinal(k) ==
    (CHOOSE h \in SetOf(hub_indices) : h.key = corridors[k].hub).idx

ListsOf(k) == {corridors[k].top_underrated, corridors[k].top_speed}

\* a borough property with some text in it
HasBorough(b) == strip(b) # <<>>

\* C19: every entry of a per-hub list has an origin other than the hub, minutes with
\* 0 < minutes <= max_minutes, and, when the origin carries a borough, a borough of
\* the allowed set {Brooklyn, Queens} (letter case and outer blanks aside)
C19_EntriesAreEligible ==
    \A k \in DOMAIN corridors : \A L \in ListsOf(k) : \A p \in DOMAIN L :
        /\ OrdinalOf(L[p].origin_id) # HubOrdinal(k)
        /\ L[p].origin_id # L[p].hub_id
        /\ L[p].hub_id = neighborhoods[HubOrdinal(k)].id
        /\ L[p].minutes = minutes_matrix[OrdinalOf(L[p].origin_id)][HubOrdinal(k)]
        /\ 0 < L[p].minutes /\ L[p].minutes <= max_minutes
        /\ L[p].origin_borough = neighborhoods[OrdinalOf(L[p].origin_id)].borough
        /\ HasBorough(L[p].origin_borough) =>
              lower(strip(L[p].origin_borough)) \in AllowedBoroughs

\* the lists of midtown hold the fourth neighborhood, of borough " QUEENS", and
\* leave out the third, of Brooklyn, which is 200 minutes away
C19_Witness ==
    /\ pc = "done"
    /\ HubOrdinal(1) = 1
    /\ minutes_matrix[3][1] = 200
    /\ lower(strip(neighborhoods[3].borough)) \in AllowedBoroughs
    /\ \E p \in DOMAIN corridors[1].top_speed :
          /\ corridors[1].top_speed[p].origin_id = neighborhoods[4].id
          /\ corridors[1].top_speed[p].origin_borough = <<" ", "Q", "U", "E", "E", "N", "S">>
    /\ \A p \in DOMAIN corridors[1].top_speed :
          corridors[1].top_speed[p].origin_id # neighborhoods[3].id

\* the origins that may enter the lists of the hub of ordinal h
Eligible(h) ==
    {i \in DOMAIN neighborhoods :
        /\ i # h
        /\ neighborhoods[i].centroid # NoCentroid
        /\ IF HasBorough(neighborhoods[i].borough)
           THEN lower(strip(neighborhoods[i].borough)) \in AllowedBoroughs
           ELSE neighborhoods[i].centroid[1] # 0
        /\ minutes_matrix[i][h] # None
        /\ 0 < minutes_matrix[i][h] /\ minutes_matrix[i][h] <= max_minutes}

DistanceKm(i, h) == haversine_km(neighborhoods[i].centroid, neighborhoods[h].centroid)

\* the sort key of the origin i towards the hub h: minutes saved against 4 minutes
\* per km, or km per minute in thousandths, and then the distance
KeyOf(i, h, which) ==
    IF which = "saved"
    THEN <<minutes_per_km * DistanceKm(i, h) - minutes_matrix[i][h], DistanceKm(i, h)>>
    ELSE <<round3(Frac(DistanceKm(i, h), minutes_matrix[i][h])), DistanceKm(i, h)>>

\* the entry e of the origin i carries the keys of i
CarriesKeys(e, i, h) ==
    /\ e.minutes = minutes_matrix[i][h]
    /\ <<e.minutes_saved, e.distance_km>> = KeyOf(i, h, "saved")
    /\ <<e.km_per_min, e.distance_km>> = KeyOf(i, h, "speed")
    /\ NearestThousandth(e.km_per_min, e.distance_km, e.minutes)

\* the order of two origins with the same keys
Tie(i, j, by) ==
    IF by = "ordinal" THEN i < j
    ELSE IF by = "id up" THEN neighborhoods[i].id < neighborhoods[j].id
    ELSE neighborhoods[i].id > neighborhoods[j].id

\* the origin i comes before the origin j
Before(i, j, h, which, by) ==
    \/ KeyLess(KeyOf(j, h, which), KeyOf(i, h, which))
    \/ KeyOf(i, h, which) = KeyOf(j, h, which) /\ Tie(i, j, by)

Origins(L) == {OrdinalOf(L[p].origin_id) : p \in DOMAIN L}

\* L is the first min(top_n, 200) of the eligible origins of the hub h in the order
\* of the keys descending
IsTopOfEligible(L, h, which, by) ==
    /\ Len(L) = Min(Min(top_n, top_n_cap), Cardinality(Eligible(h)))
    /\ Origins(L) \subseteq Eligible(h)
    /\ \A p \in DOMAIN L : CarriesKeys(L[p], OrdinalOf(L[p].origin_id), h)
    /\ \A p, q \in DOMAIN L :
          p < q => Before(OrdinalOf(L[p].origin_id), OrdinalOf(L[q].origin_id), h, which, by)
    /\ \A i \in Eligible(h) \ Origins(L) : \A p \in DOMAIN L :
          Before(OrdinalOf(L[p].origin_id), i, h, which, by)

ListsRanked(by) ==
    \A k \in DOMAIN corridors :
        /\ IsTopOfEligible(corridors[k].top_underrated, HubOrdinal(k), "saved", by)
        /\ IsTopOfEligible(corridors[k].top_speed, HubOrdinal(k), "speed", by)

\* C20 (as stated): the lists are the first min(top_n, 200) eligible entries by
\* minutes_saved (top_underrated) or km_per_min (top_speed) and then distance_km,
\* descending, entries with both keys equal in an order of their origin ids
\* (ascending in every list, or descending in every list)
C20_TiesInOriginIdOrder ==
    pc = "done" => ListsRanked("id up") \/ ListsRanked("id down")

\* C20: the same lists, entries with both keys equal in the order of their
\* neighborhoods in the input
C20_TiesInNeighborhoodOrder ==
    pc = "done" => ListsRanked("ordinal")

\* with top_n = 2 and three eligible origins for each hub: the two lists of midtown
\* differ, and the lists of downtown start with two entries of equal keys whose
\* origin ids descend
C20_Witness ==
    /\ pc = "done"
    /\ top_n = 2
    /\ Len(corridors) = 2
    /\ Cardinality(Eligible(HubOrdinal(1))) = 3
    /\ Cardinality(Eligible(HubOrdinal(2))) = 3
    /\ corridors[1].top_underrated # corridors[1].top_speed
    /\ KeyOf(1, HubOrdinal(2), "speed") = KeyOf(3, HubOrdinal(2), "speed")
    /\ corridors[2].top_speed[1].origin_id = neighborhoods[1].id
    /\ corridors[2].top_speed[2].origin_id = neighborhoods[3].id
    /\ neighborhoods[1].id > neighborhoods[3].id

\* ---- the chain state of the stop_times stream (Spec) ----

\* the last row had a stop id and a stop_sequence not above the stored one
OutOfOrderRow ==
    /\ nrows > 0
    /\ curRow.stop_id # None
    /\ curRow.seq # None
    /\ out_of_order

StateOfRow(row) == [seq |-> row.seq, stop |-> row.stop_id, dep |-> row.dep]

\* C24 (as stated): after a row of trip t whose sequence is not above the stored
\* last_sequence, trip t has no stored state
C24_OutOfOrderRowLeavesNoState ==
    OutOfOrderRow => curRow.trip_id \notin DOMAIN trip_state

\* C24: after such a row the stored state of trip t is that row when the row has a
\* departure time, so that the next row of t can yield a sample; trip t has no
\* stored state when the departure time is missing
C24_OutOfOrderRowStartsChain ==
    OutOfOrderRow =>
        IF curRow.dep = None
        THEN curRow.trip_id \notin DOMAIN trip_state
        ELSE /\ curRow.trip_id \in DOMAIN trip_state
             /\ trip_state[curRow.trip_id] = StateOfRow(curRow)

\* an out-of-order row with a departure time is the stored state after it
C24_Witness ==
    /\ OutOfOrderRow
    /\ curRow.dep # None
    /\ trip_state[curRow.trip_id] = StateOfRow(curRow)

\* the row can be stored: it has a stop id, a stop_sequence and a departure time
Storable(row) == row.stop_id # None /\ row.seq # None /\ row.dep # None

\* C26: after each row, for every trip t the stored state is present exactly when
\* the most recent row of t had a stop id, a parsable stop_sequence and a parsable
\* departure time, and is then (sequence, stop, departure) of that row; the rows of
\* other trips leave it alone
C26_StateIsLastRow ==
    \A t \in Trips :
        IF t \in DOMAIN lastRow /\ Storable(lastRow[t])
        THEN t \in DOMAIN trip_state /\ trip_state[t] = StateOfRow(lastRow[t])
        ELSE t \notin DOMAIN trip_state

\* trip 1 keeps the state of its last row while the latest rows belong to trip 2,
\* whose state was dropped by a row without a departure time
C26_Witness ==
    /\ nrows >= 3
    /\ curRow.trip_id = 2
    /\ curRow.dep = None
    /\ out_of_order
    /\ 2 \notin DOMAIN trip_state
    /\ 1 \in DOMAIN trip_state
    /\ trip_state[1] = StateOfRow(lastRow[1])

\* ---- the tract name of the fallback (SpecDerived) ----

\* C25: without a gazetteer match the tract name that the fallback splits, and lists
\* last among the aliases, is the name of the representative tract of the region
C25_FallbackUsesDominantTractName ==
    \A r \in DOMAIN named_regions :
        /\ named_regions[r].aliases # <<>>
        /\ named_regions[r].aliases[Len(named_regions[r].aliases)] =
              TractNameOf(named_regions[r].representative_tract_id)

\* ---- the range of the derived minutes (SpecDerived) ----

\* the defined base values minutes[i][j] over the tracts i of r and j of s
DefinedValues(r, s) ==
    {minutes_matrix[TractOrdinal(r, i)][TractOrdinal(s, j)] :
        i \in IndexedTracts(r), j \in IndexedTracts(s)} \ {None}

\* C29: every non-null minutes'[r][s] lies between the least and the greatest
\* defined minutes[i][j] over the tracts i of r and j of s; between two regions of a
\* single tract each it is minutes[i][j]
C29_DerivedWithinBaseRange ==
    pc = "done" =>
        \A r, s \in DOMAIN derived_regions :
            /\ derived_minutes[r][s] # None =>
                  /\ \E v \in DefinedValues(r, s) : v <= derived_minutes[r][s]
                  /\ \E v \in DefinedValues(r, s) : derived_minutes[r][s] <= v
            /\ Cardinality(IndexedTracts(r)) = 1 /\ Cardinality(IndexedTracts(s)) = 1 =>
                  \A i \in IndexedTracts(r), j \in IndexedTracts(s) :
                      derived_minutes[r][s] =
                          minutes_matrix[TractOrdinal(r, i)][TractOrdinal(s, j)]

\* a region of two tracts that are 2 and 7 minutes from the single tract of the
\* other region: the value lies strictly between them
C29_Witness ==
    /\ pc = "done"
    /\ Cardinality(IndexedTracts(1)) = 2
    /\ Cardinality(IndexedTracts(2)) = 1
    /\ DefinedValues(1, 2) = {2, 7}
    /\ derived_minutes[1][2] \in 3..6
    /\ derived_minutes[2][2] = 0

\* ---- the regions that de-duplication leaves alone (SpecNames) ----

\* the region has its name and aliases of before the first pass
Untouched(i) ==
    /\ derived_regions[i].name = named_regions[i].name
    /\ derived_regions[i].aliases = named_regions[i].aliases

\* C30 (as stated): a region whose primary name is unique before the first pass,
\* up to case and outer spaces, ends with that name and its aliases
C30_UniquePrimaryUntouched ==
    Deduplicated => \A i \in RegionIds : ~SharedPrimary(i) => Untouched(i)

\* C30: such a region ends with its name and aliases when, in addition, its name
\* does not begin with the primary name of another region followed by " · "
C30_UniqueAndNotExtendingUntouched ==
    Deduplicated =>
        \A i \in RegionIds :
            (~SharedPrimary(i) /\ \A j \in RegionIds \ {i} : ~ExtendsPrimary(i, j)) =>
                Untouched(i)

\* two regions named "X" are renamed around a third of another name
C30_Witness ==
    /\ Deduplicated
    /\ \E i \in RegionIds :
          /\ ~SharedPrimary(i)
          /\ \A j \in RegionIds \ {i} : ~ExtendsPrimary(i, j)
          /\ Untouched(i)
          /\ \A j \in RegionIds \ {i} :
                /\ named_regions[j].name = <<"X">>
                /\ derived_regions[j].name # <<"X">>

\* ---- the seconds of a GTFS time string (SpecParse) ----

IsDigits(d) == d # <<>> /\ \A k \in DOMAIN d : d[k] \in DigitChars

\* the text is H:MM:SS or HH:MM:SS with MM and SS below 60
WellFormedTime(t) ==
    \E hl \in {1, 2} :
        /\ Len(t) = hl + 6
        /\ IsDigits(SubSeq(t, 1, hl))
        /\ t[hl + 1] = ":" /\ t[hl + 4] = ":"
        /\ IsDigits(SubSeq(t, hl + 2, hl + 3))
        /\ IsDigits(SubSeq(t, hl + 5, hl + 6))
        /\ t[hl + 2] \in {"0", "1", "2", "3", "4", "5"}
        /\ t[hl + 5] \in {"0", "1", "2", "3", "4", "5"}

\* the decimal value of a text of digits, from the first digit on
RECURSIVE DecimalValue(_, _)
DecimalValue(d, acc) ==
    IF d = <<>> THEN acc ELSE DecimalValue(Tail(d), 10 * acc + DigitValue(d[1]))

\* the seconds of a well-formed text
WellFormedSeconds(t) ==
    LET hl == Len(t) - 6
    IN DecimalValue(SubSeq(t, 1, hl), 0) * 3600
         + DecimalValue(SubSeq(t, hl + 2, hl + 3), 0) * 60
         + DecimalValue(SubSeq(t, hl + 5, hl + 6), 0)

\* the field without the blanks around it and without one leading sign
Unsigned(f) ==
    IF strip(f) # <<>> /\ strip(f)[1] \in {"+", "-"} THEN Tail(strip(f)) ELSE strip(f)

\* the field reads as an integer: digits after an optional sign, between blanks
IsInteger(f) == IsDigits(Unsigned(f))

IntegerValue(f) ==
    IF strip(f)[1] = "-" THEN -DecimalValue(Unsigned(f), 0) ELSE DecimalValue(Unsigned(f), 0)

TimeParsed == pc = "parsed" /\ ~time_text.none

\* the fields of the argument between the colons
TimeParts == split(strip(time_text.text), ":")

\* the argument has three integer fields with minutes and seconds in 0..59 and
\* hours not negative
LenientTime ==
    /\ Len(TimeParts) = 3
    /\ \A k \in 1..3 : IsInteger(TimeParts[k])
    /\ IntegerValue(TimeParts[1]) >= 0
    /\ IntegerValue(TimeParts[2]) \in 0..59
    /\ IntegerValue(TimeParts[3]) \in 0..59

\* C23 (as stated): the result is h*3600 + m*60 + s for a text H:MM:SS or HH:MM:SS
\* with MM and SS below 60, and null for every other argument
C23_NullForEveryOtherInput ==
    pc = "parsed" =>
        IF ~time_text.none /\ WellFormedTime(time_text.text)
        THEN time_seconds = WellFormedSeconds(time_text.text)
        ELSE time_seconds = None

\* C23: the result is h*3600 + m*60 + s for such a text, hours above 23 included;
\* it is null for a null or blank argument, another number of fields than three, a
\* field that is no integer, minutes or seconds outside 0..59 or negative hours; and
\* it is h*3600 + m*60 + s for every other argument, whose three fields are
\* integers written with one digit, with three digits, with a sign or between blanks
C23_SecondsOfIntegerFields ==
    pc = "parsed" =>
        /\ (~time_text.none /\ WellFormedTime(time_text.text)) =>
              time_seconds = WellFormedSeconds(time_text.text)
        /\ IF ~time_text.none /\ LenientTime
           THEN time_seconds = IntegerValue(TimeParts[1]) * 3600
                                 + IntegerValue(TimeParts[2]) * 60
                                 + IntegerValue(TimeParts[3])
           ELSE time_seconds = None

\* 25:05:59 is parsed to 90359 seconds
C23_Witness ==
    /\ pc = "parsed"
    /\ time_text = OptText(<<"2", "5", ":", "0", "5", ":", "5", "9">>)
    /\ WellFormedTime(time_text.text)
    /\ time_seconds = 25 * 3600 + 5 * 60 + 59

\* ---- the outputs and the ids of main() (SpecMain) ----

MissingFile == RequiredFiles \ namelist # {}

Unmatched == \E r \in DOMAIN neighborhood_list : neighborhood_list[r].stop_id = None

ResultFiles ==
    {GraphFile(w) : w \in WindowIds} \union {MatrixFile(w) : w \in WindowIds}
      \union {TeleportFile}

MainReturned == pc \in {"exit", "tracts"}

\* C21: when a required file is missing from the zip, or the GeoJSON has no
\* features, or a neighborhood has no stop, the run returns 2 and at no moment has
\* it written a graph, a matrix or teleport_corridors.json; no other run returns 2
C21_FailureWritesNoResult ==
    /\ (MissingFile \/ features = <<>> \/ Unmatched) =>
          /\ written \intersect ResultFiles = {}
          /\ MainReturned => exit_code = 2
    /\ exit_code = 2 => (MissingFile \/ features = <<>> \/ Unmatched)

\* a run that matched no neighborhood has returned 2 after writing
\* neighborhoods.geojson only
C21_Witness ==
    /\ MainReturned
    /\ ~MissingFile
    /\ Len(neighborhood_list) = 2
    /\ Unmatched
    /\ exit_code = 2
    /\ written = {NeighborhoodsFile}

\* the number of features up to k that have a usable geometry: the row of feature k
RowOf(k) == Cardinality({j \in 1..k : features[j].geometry})

\* C22: in the written neighborhoods.geojson a feature with a usable geometry
\* carries the id of its row of the neighborhoods list, which is its row of the
\* matrix, and a feature without one, which has no row, carries no atlas_id
C22_AtlasIdIsRowId ==
    NeighborhoodsFile \in written =>
        /\ Len(neighborhood_list) = RowOf(Len(features))
        /\ \A k \in DOMAIN features :
              IF features[k].geometry
              THEN /\ neighborhood_list[RowOf(k)].feature = k
                   /\ features[k].atlas_id = neighborhood_list[RowOf(k)].id
                   /\ features[k].atlas_id # <<>>
              ELSE features[k].atlas_id = <<>>

\* the matrices are written; the second of three features has no geometry, the
\* third is on the second row
C22_Witness ==
    /\ \A w \in WindowIds : MatrixFile(w) \in written
    /\ NeighborhoodsFile \in written
    /\ Len(features) = 3
    /\ ~features[2].geometry /\ features[2].atlas_id = <<>>
    /\ Len(neighborhood_list) = 2
    /\ neighborhood_list[2].feature = 3
    /\ features[3].atlas_id = neighborhood_list[2].id
    /\ features[3].atlas_id # features[1].atlas_id

\* C27: the ids of the neighborhoods list are pairwise distinct, whatever the features
C27_IdsPairwiseDistinct ==
    \A r, q \in DOMAIN neighborhood_list :
        neighborhood_list[r].id = neighborhood_list[q].id => r = q

\* C28: the tract that build_derived makes of a feature has the id that main gave
\* the neighborhood of that feature
C28_TractIdIsNeighborhoodId ==
    pc = "tracts" =>
        \A t \in DOMAIN derived_tracts : \A r \in DOMAIN neighborhood_list :
            derived_tracts[t].feature = neighborhood_list[r].feature =>
                derived_tracts[t].id = neighborhood_list[r].id

====
